---- MODULE Spec2Model ----
(***************************************************************************)
(* Reputation and incentive subsystem of Xdest (backend/app):              *)
(* test karma (dependencies.py), offer obligations and the penalty sweep,  *)
(* offer claims and the leaderboard (routers/api.py), over the relational  *)
(* store declared in models/.                                              *)
(*                                                                         *)
(* A table is a set of records, one record per row.  A nullable column     *)
(* holds NULL; SQL comparisons with NULL are unknown and filter the row    *)
(* out (SqlEq, SqlNe).  Time is counted in units of the claim period       *)
(* (timedelta(days=7)), so a deadline is claimed_at + CLAIM_PERIOD.        *)
(***************************************************************************)
EXTENDS Integers, FiniteSets, Sequences, TLC

\* ------------------------------------------------------------------ bounds
NumUsers == 3
NumDevelopers == 2
NumObligationUsers == 2
MaxProjects == 2
MaxIssues == 3
MaxKarmaIssues == 7
MaxResponses == 1
MaxPosts == 1
MaxComments == 1
MaxOffers == 2
MaxClaimOffers == 1
MaxRedemptions == 2
MaxContent == 1
MaxCap == 1
MaxValidUntil == 0
MaxTime == 2
MaxClaimTime == 1
NumSweepers == 2
NumRequests == 2
MaxMessages == 1
MaxReplies == 1
MaxCommunityRows == 2
MaxVotes == 2
MaxRejectVotes == 1
MaxVoteId == 3
MaxRaceIssues == 2
MaxBoardIssues == 2
MaxBoardRows == 4
MaxBoardRatings == 1
MaxBoardClaims == 1
NumCrowd == 52
MaxCrowdRatings == 1
MaxRatings == 2
MaxSolutionIssues == 2
MaxSolutionResponses == 3

\* --------------------------------------------------------- program constants
KARMA_LIMIT == -5
SYSTEM_USER == 2
CLAIM_PERIOD == 1
SYSTEM_PLATFORM == "Xdest-System"
USER_PLATFORM == "Xdest"
NULL == -1
LEADERBOARD_LIMIT == 50

\* ------------------------------------------------------------------- state
VARIABLES
    users,        \* ids of the rows of table users
    projects,     \* table projects
    issues,       \* table issues
    responses,    \* table issue_responses
    posts,        \* table posts
    comments,     \* table comments
    offers,       \* table offers
    redemptions,  \* table offer_redemptions
    user_ratings, \* table user_ratings
    project_ratings, \* table project_ratings
    messages,     \* table messages
    message_replies, \* table message_replies
    votes,        \* the six vote tables, by the kind of entity voted on
    flights,      \* per vote request in flight: what it has loaded before it
                  \* waits for its body
    now,          \* datetime.utcnow()
    sweeps,       \* per sweeping call: where it is, the row ids it has read, and
                  \* what its last run returned
    resp          \* the last request and its response

\* The tables of messages, votes and project ratings, and the requests in flight.
community == <<project_ratings, messages, message_replies, votes, flights>>

store == <<users, projects, issues, responses, posts, comments, offers, redemptions,
           user_ratings, project_ratings, messages, message_replies, votes>>
vars == <<users, projects, issues, responses, posts, comments, offers, redemptions,
          user_ratings, project_ratings, messages, message_replies, votes, flights,
          now, sweeps, resp>>

Users == 1..NumUsers

\* User.role: users signed in with GitHub are developers, the others testers.
role(u) == IF u <= NumDevelopers THEN "developer" ELSE "tester"
Sweepers == 1..NumSweepers

\* The kinds of entity a vote is cast on, one vote table each.
Kinds == {"post", "comment", "response", "issue", "message", "reply"}

\* Vote requests the server holds at the same time.
Requests == 1..NumRequests

\* No request in this slot yet.  A request in flight keeps the row it loaded
\* (its counters) in its session; beside is the set of requests that were waiting
\* for their body when this one loaded its row, vote_type and code are what it
\* sent and what it was answered once it is done.
Idle == [pc |-> "idle", kind |-> "", user |-> NULL, target |-> NULL,
         upvotes |-> 0, downvotes |-> 0, beside |-> {}, vote_type |-> "", code |-> 0]

\* ----------------------------------------------------------------- helpers
Max(S) == CHOOSE x \in S : \A y \in S : y <= x

\* The id a new row of table T gets (SQLite rowid: largest id in use + 1).
NextId(T) == IF T = {} THEN 1 ELSE Max({r.id : r \in T}) + 1

\* The row of T with id k (ids are primary keys).
Row(T, k) == CHOOSE r \in T : r.id = k

Exists(T, k) == \E r \in T : r.id = k

\* SQL `a = b` and `a != b` as filter conditions: unknown (NULL) filters out.
SqlEq(a, b) == a # NULL /\ b # NULL /\ a = b
SqlNe(a, b) == a # NULL /\ b # NULL /\ a # b

\* Python truthiness of an Optional[int].
Truthy(x) == x # NULL /\ x # 0

\* A request (handler, session user, path id, the project it concerns) and its
\* response (status code, status or detail text, deadline or count, fulfilled).
Response(op, user, target, project, code, detail, value, flag) ==
    [op |-> op, user |-> user, target |-> target, project |-> project,
     code |-> code, detail |-> detail, value |-> value, flag |-> flag]

\* RedirectResponse(url, status_code=302) of handler op.
Redirect(op) == Response(op, NULL, NULL, NULL, 302, "", NULL, FALSE)

\* HTTPException(status_code, detail): nothing was committed.
Error(op, user, target, code, detail) ==
    Response(op, user, target, NULL, code, detail, NULL, FALSE)

\* ---------------------------------------------------------- models/offer.py
\* Offer.is_valid at time t.
is_valid(o, t) ==
    IF ~o.is_active THEN FALSE
    ELSE IF o.valid_until # NULL /\ t > o.valid_until THEN FALSE
    ELSE IF Truthy(o.max_redemptions) /\ o.current_redemptions >= o.max_redemptions
         THEN FALSE
    ELSE TRUE

\* ------------------------------------------------------------ dependencies.py
\* Issues user_id wrote for projects of others (join on Project, no system issues).
issues_given(iss, projs, user_id) ==
    Cardinality({i \in iss : \E p \in projs :
        /\ SqlEq(i.project_id, p.id)
        /\ SqlEq(i.user_id, user_id)
        /\ SqlNe(p.user_id, user_id)
        /\ i.source_platform # SYSTEM_PLATFORM})

\* issues_received without the filter on source_platform.
issues_received_any_platform(iss, projs, user_id) ==
    Cardinality({i \in iss : \E p \in projs :
        /\ SqlEq(i.project_id, p.id)
        /\ SqlEq(p.user_id, user_id)
        /\ SqlNe(i.user_id, user_id)})

\* Issues others wrote for the projects of user_id (no system issues).
issues_received(iss, projs, user_id) ==
    Cardinality({i \in iss : \E p \in projs :
        /\ SqlEq(i.project_id, p.id)
        /\ SqlEq(p.user_id, user_id)
        /\ SqlNe(i.user_id, user_id)
        /\ i.source_platform # SYSTEM_PLATFORM})

\* offer_penalties without the filter on karma_penalty_reversed.
offer_penalties_with_reversed(reds, user_id) ==
    Cardinality({r \in reds : SqlEq(r.user_id, user_id) /\ r.karma_penalty_applied})

\* Penalties applied and not reversed.
offer_penalties(reds, user_id) ==
    Cardinality({r \in reds : /\ SqlEq(r.user_id, user_id)
                              /\ r.karma_penalty_applied
                              /\ ~r.karma_penalty_reversed})

\* Unfulfilled obligations.
pending_count(reds, user_id) ==
    Cardinality({r \in reds : SqlEq(r.user_id, user_id) /\ ~r.fulfilled})

\* calculate_test_karma that blocks a user at the limit already.
calculate_test_karma_blocked_at_limit(iss, projs, reds, user_id) ==
    LET given    == issues_given(iss, projs, user_id)
        received == issues_received(iss, projs, user_id)
        pens     == offer_penalties(reds, user_id)
        karma    == given - received - pens
    IN  [given |-> given,
         received |-> received,
         offer_penalties |-> pens,
         pending_obligations |-> pending_count(reds, user_id),
         karma |-> karma,
         is_blocked |-> karma <= KARMA_LIMIT,
         limit |-> KARMA_LIMIT]

calculate_test_karma(iss, projs, reds, user_id) ==
    LET given    == issues_given(iss, projs, user_id)
        received == issues_received(iss, projs, user_id)
        pens     == offer_penalties(reds, user_id)
        karma    == given - received - pens
    IN  [given |-> given,
         received |-> received,
         offer_penalties |-> pens,
         pending_obligations |-> pending_count(reds, user_id),
         karma |-> karma,
         is_blocked |-> karma < KARMA_LIMIT,
         limit |-> KARMA_LIMIT]

\* ------------------------------------------------- routers/api.py: obligations
\* pending without the filter on fulfilled.
pending_with_fulfilled(reds, user_id, project_id) ==
    {r \in reds : SqlEq(r.user_id, user_id) /\ SqlEq(r.project_id, project_id)}

\* The rows _fulfill_offer_obligation selects.
pending(reds, user_id, project_id) ==
    {r \in reds : /\ SqlEq(r.user_id, user_id)
                  /\ SqlEq(r.project_id, project_id)
                  /\ ~r.fulfilled}

\* _fulfill_offer_obligation that leaves the penalty of a fulfilled row in place.
_fulfill_offer_obligation_no_reversal(reds, user_id, project_id, t) ==
    {IF r \in pending(reds, user_id, project_id)
        THEN [r EXCEPT !.fulfilled = TRUE, !.fulfilled_at = t]
        ELSE r : r \in reds}

\* The table after _fulfill_offer_obligation(db, user_id, project_id) at time t.
_fulfill_offer_obligation(reds, user_id, project_id, t) ==
    {IF r \in pending(reds, user_id, project_id)
        THEN [r EXCEPT !.fulfilled = TRUE,
                       !.fulfilled_at = t,
                       !.karma_penalty_reversed =
                           IF r.karma_penalty_applied /\ ~r.karma_penalty_reversed
                              THEN TRUE ELSE @]
        ELSE r : r \in reds}

\* overdue that takes a redemption at its deadline for overdue.
overdue_at_deadline(reds, t) ==
    {r \in reds : ~r.fulfilled /\ ~r.karma_penalty_applied /\ r.deadline <= t}

\* The rows check_and_apply_karma_penalties selects at time t.
overdue(reds, t) ==
    {r \in reds : ~r.fulfilled /\ ~r.karma_penalty_applied /\ r.deadline < t}

\* apply_penalties that flips the flag instead of setting it.
apply_penalties_flipping(reds, ids) ==
    {IF r.id \in ids
        THEN [r EXCEPT !.karma_penalty_applied = ~r.karma_penalty_applied]
        ELSE r : r \in reds}

\* The write of check_and_apply_karma_penalties: the flag is set on the rows it
\* read (by primary key), whatever has become of their other columns.
apply_penalties(reds, ids) ==
    {IF r.id \in ids THEN [r EXCEPT !.karma_penalty_applied = TRUE] ELSE r : r \in reds}

\* ------------------------------------------------- routers/api.py: leaderboard
RECURSIVE SumField(_, _)
\* func.sum(column f) over the rows S.
SumField(S, f) ==
    IF S = {} THEN 0
    ELSE LET r == CHOOSE x \in S : TRUE IN r[f] + SumField(S \ {r}, f)

\* The entry get_leaderboard builds for user uid (steps 1 to 4).
user_scores(iss, resps, projs, reds, ratings, uid) ==
    LET own_responses == {r \in resps : SqlEq(r.user_id, uid)}
        own_issues == {i \in iss : SqlEq(i.user_id, uid)}
    IN  [user_id |-> uid,
         solutions |-> SumField(own_responses, "is_solution"),
         response_helpful |-> SumField(own_responses, "helpful_count"),
         total_responses |-> Cardinality(own_responses),
         issue_helpful |-> SumField(own_issues, "helpful_count"),
         github_positive |-> SumField(own_issues, "github_reactions"),
         github_negative |-> SumField(own_issues, "github_negative_reactions"),
         total_issues |-> Cardinality(own_issues),
         five_star_ratings |->
             Cardinality({g \in ratings : SqlEq(g.rated_user_id, uid) /\ g.stars = 5}),
         issues_given |-> issues_given(iss, projs, uid),
         issues_received |-> issues_received(iss, projs, uid),
         offer_penalties |-> offer_penalties(reds, uid),
         projects_count |-> Cardinality({p \in projs : SqlEq(p.user_id, uid)})]

\* Step 5 of get_leaderboard: the total of an entry ...
total_score(d) ==
    d.solutions + d.response_helpful + d.issue_helpful
    + d.github_positive - d.github_negative
    + d.five_star_ratings
    + d.issues_given + d.issues_received
    - d.offer_penalties

\* ... and whether the entry is appended to the leaderboard.
listed(d) ==
    \/ total_score(d) > 0
    \/ d.total_issues > 0
    \/ d.total_responses > 0
    \/ d.issues_given > 0
    \/ d.issues_received > 0

\* my_total_score that takes the issues received off, as test_karma does.
my_total_score_less_received(iss, resps, projs, reds, ratings, uid) ==
    LET own_responses == {r \in resps : SqlEq(r.user_id, uid)}
        own_issues == {i \in iss : SqlEq(i.user_id, uid)}
        five_star_count ==
            Cardinality({g \in ratings : SqlEq(g.rated_user_id, uid) /\ g.stars = 5})
        karma_data == calculate_test_karma(iss, projs, reds, uid)
    IN  SumField(own_responses, "is_solution")
        + SumField(own_responses, "helpful_count")
        + SumField(own_issues, "helpful_count")
        + SumField(own_issues, "github_reactions")
        - SumField(own_issues, "github_negative_reactions")
        + five_star_count
        + karma_data.given - karma_data.received - karma_data.offer_penalties

\* total_score of get_my_leaderboard_stats for the session user.
my_total_score(iss, resps, projs, reds, ratings, uid) ==
    LET own_responses == {r \in resps : SqlEq(r.user_id, uid)}
        own_issues == {i \in iss : SqlEq(i.user_id, uid)}
        five_star_count ==
            Cardinality({g \in ratings : SqlEq(g.rated_user_id, uid) /\ g.stars = 5})
        karma_data == calculate_test_karma(iss, projs, reds, uid)
    IN  SumField(own_responses, "is_solution")
        + SumField(own_responses, "helpful_count")
        + SumField(own_issues, "helpful_count")
        + SumField(own_issues, "github_reactions")
        - SumField(own_issues, "github_negative_reactions")
        + five_star_count
        + karma_data.given + karma_data.received - karma_data.offer_penalties

\* test_karma of a leaderboard entry.
test_karma(d) == d.issues_given - d.issues_received - d.offer_penalties

\* The leaderboard before it is sorted: the entries of the users in us that are
\* appended, each with its total_score and test_karma.
appended(us, iss, resps, projs, reds, ratings) ==
    {[user_id |-> uid,
      entry |-> user_scores(iss, resps, projs, reds, ratings, uid),
      total_score |-> total_score(user_scores(iss, resps, projs, reds, ratings, uid)),
      test_karma |-> test_karma(user_scores(iss, resps, projs, reds, ratings, uid))] :
        uid \in {v \in us : listed(user_scores(iss, resps, projs, reds, ratings, v))}}

\* The entries S in the order they were appended: user_scores is filled from the
\* rows of the GROUP BY User.id queries, which come in the order of the ids.
by_user_id(S) ==
    LET at == {<<1 + Cardinality({x \in S : x.user_id < e.user_id}), e>> : e \in S}
    IN  [i \in 1..Cardinality(S) |-> (CHOOSE ie \in at : ie[1] = i)[2]]

\* place that counts the entries of a lower total_score as those in front.
place_ascending(s, i) ==
    1 + Cardinality({j \in 1..Len(s) :
            \/ s[j].total_score < s[i].total_score
            \/ s[j].total_score = s[i].total_score /\ j < i})

\* The place entry s[i] takes in the sorted list: behind the entries of a higher
\* total_score and behind those of its own total_score that stood before it.
place(s, i) ==
    1 + Cardinality({j \in 1..Len(s) :
            \/ s[j].total_score > s[i].total_score
            \/ s[j].total_score = s[i].total_score /\ j < i})

\* leaderboard.sort(key=total_score, reverse=True): the highest total_score
\* first; the sort is stable, entries of one total_score keep their order.
sort(s) ==
    LET places == {<<place(s, i), i>> : i \in 1..Len(s)}
    IN  [p \in 1..Len(s) |-> s[(CHOOSE pi \in places : pi[1] = p)[2]]]

\* leaderboard[:50]
limit(s) == SubSeq(s, 1, IF Len(s) < LEADERBOARD_LIMIT THEN Len(s) ELSE LEADERBOARD_LIMIT)

\* The entries get_leaderboard returns: the first LEADERBOARD_LIMIT of the sorted
\* list, each with its place in it as rank.
get_leaderboard(us, iss, resps, projs, reds, ratings) ==
    LET leaderboard ==
            limit(sort(by_user_id(appended(us, iss, resps, projs, reds, ratings))))
    IN  {[user_id |-> leaderboard[rank].user_id, entry |-> leaderboard[rank].entry,
          total_score |-> leaderboard[rank].total_score,
          test_karma |-> leaderboard[rank].test_karma, rank |-> rank] :
            rank \in 1..Len(leaderboard)}

\* rank, total_score and test_karma of get_my_leaderboard_stats for the session
\* user uid: the rank is read off the answer of get_leaderboard, NULL when the
\* user is not in it.
get_my_leaderboard_stats(us, iss, resps, projs, reds, ratings, uid) ==
    LET karma_data == calculate_test_karma(iss, projs, reds, uid)
        mine == {e \in get_leaderboard(us, iss, resps, projs, reds, ratings) :
                    e.user_id = uid}
    IN  [user_id |-> uid,
         rank |-> IF mine = {} THEN NULL ELSE (CHOOSE e \in mine : TRUE).rank,
         total_score |-> my_total_score(iss, resps, projs, reds, ratings, uid),
         test_karma |-> karma_data.given - karma_data.received
                        - karma_data.offer_penalties]

\* -------------------------------------------------------------------- Init
Init ==
    /\ users = Users
    /\ projects = {}
    /\ issues = {}
    /\ responses = {}
    /\ posts = {}
    /\ comments = {}
    /\ offers = {}
    /\ redemptions = {}
    /\ user_ratings = {}
    /\ project_ratings = {}
    /\ messages = {}
    /\ message_replies = {}
    /\ votes = [k \in Kinds |-> {}]
    /\ flights = [q \in Requests |-> Idle]
    /\ now = 0
    /\ sweeps = [s \in Sweepers |-> [pc |-> "idle", rows |-> {}, result |-> 0]]
    /\ resp = Error("init", NULL, NULL, 200, "")

\* The welcome issue create_project inserts on a user's first project.
welcome_issue(id, project_id) ==
    [id |-> id, project_id |-> project_id, user_id |-> SYSTEM_USER,
     source_platform |-> SYSTEM_PLATFORM, status |-> "open",
     helpful_count |-> 0, github_reactions |-> 0, github_negative_reactions |-> 0]

\* GET /auth/google/callback for an account the users table does not hold yet:
\* a tester is added, with at most cap users in the table.
google_callback(cap) ==
    /\ Cardinality(users) < cap
    /\ LET id == IF users = {} THEN 1 ELSE Max(users) + 1
       IN  /\ role(id) = "tester"
           /\ users' = users \cup {id}
    /\ resp' = Redirect("google_callback")
    /\ UNCHANGED <<projects, issues, responses, posts, comments, offers, redemptions,
                   user_ratings, community, now, sweeps>>

\* POST /api/project/create
create_project(u) ==
    /\ Cardinality(projects) < MaxProjects
    /\ u \in users                                   \* else 401
    /\ role(u) # "tester"                            \* else 403
    /\ LET project == [id |-> NextId(projects), user_id |-> u]
           user_project_count ==
               Cardinality({p \in projects \cup {project} : SqlEq(p.user_id, u)})
       IN  /\ projects' = projects \cup {project}
           /\ issues' = IF user_project_count = 1
                        THEN issues \cup {welcome_issue(NextId(issues), project.id)}
                        ELSE issues
           /\ resp' = Redirect("create_project")
    /\ UNCHANGED <<users, responses, posts, comments, offers, redemptions,
                   user_ratings, community, now, sweeps>>

\* POST /api/project/{project_id}/post
create_post(u, project_id) ==
    /\ Cardinality(posts) < MaxPosts
    /\ u \in users                                   \* else 401
    /\ Exists(projects, project_id)                  \* else 404
    /\ Row(projects, project_id).user_id = u         \* else 403
    /\ posts' = posts \cup
         {[id |-> NextId(posts), project_id |-> project_id, user_id |-> u,
           upvote_count |-> 0, downvote_count |-> 0]}
    /\ resp' = Redirect("create_post")
    /\ UNCHANGED <<users, projects, issues, responses, comments, offers, redemptions,
                   user_ratings, community, now, sweeps>>

\* POST /api/post/{post_id}/comment
create_comment(u, post_id) ==
    /\ Cardinality(comments) < MaxComments
    /\ u \in users                                   \* else 401
    /\ Exists(posts, post_id)                        \* else 404
    /\ LET post == Row(posts, post_id)
       IN  /\ comments' = comments \cup
                {[id |-> NextId(comments), post_id |-> post_id, user_id |-> u,
                  upvote_count |-> 0, downvote_count |-> 0]}
           /\ redemptions' =
                _fulfill_offer_obligation(redemptions, u, post.project_id, now)
           /\ resp' = Redirect("create_comment")
    /\ UNCHANGED <<users, projects, issues, responses, posts, offers, user_ratings, community,
                   now, sweeps>>

\* POST /api/project/{project_id}/issue, with at most cap rows in the table
create_issue(u, project_id, cap) ==
    /\ Cardinality(issues) < cap
    /\ u \in users                                   \* else 401
    /\ Exists(projects, project_id)                  \* else 404
    /\ issues' = issues \cup
         {[id |-> NextId(issues), project_id |-> project_id, user_id |-> u,
           source_platform |-> USER_PLATFORM, status |-> "open",
           helpful_count |-> 0, github_reactions |-> 0,
           github_negative_reactions |-> 0]}
    /\ redemptions' = _fulfill_offer_obligation(redemptions, u, project_id, now)
    /\ resp' = Redirect("create_issue")
    /\ UNCHANGED <<users, projects, responses, posts, comments, offers, user_ratings, community,
                   now, sweeps>>

\* POST /api/issue/{issue_id}/respond
respond_to_issue(u, issue_id, cap) ==
    /\ Cardinality(responses) < cap
    /\ u \in users                                   \* else 401
    /\ Exists(issues, issue_id)                      \* else 404
    /\ LET issue == Row(issues, issue_id)
       IN  /\ responses' = responses \cup
                {[id |-> NextId(responses), issue_id |-> issue_id, user_id |-> u,
                  helpful_count |-> 0, is_solution |-> 0]}
           /\ redemptions' =
                _fulfill_offer_obligation(redemptions, u, issue.project_id, now)
           /\ resp' = Redirect("respond_to_issue")
    /\ UNCHANGED <<users, projects, issues, posts, comments, offers, user_ratings, community,
                   now, sweeps>>

\* GET /api/leaderboard: the handler runs its queries and answers; it writes to
\* no table and calls nothing that does. The answer is get_leaderboard of the
\* tables as they are.
leaderboard_request ==
    /\ resp' = Response("get_leaderboard", NULL, NULL, NULL, 200, "", NULL, FALSE)
    /\ UNCHANGED <<users, projects, issues, responses, posts, comments, offers,
                   redemptions, user_ratings, community, now, sweeps>>

\* solution_set that leaves the other responses of the issue as they are.
solution_set_not_clearing(resps, issue, response_id) ==
    {IF r.id = response_id THEN [r EXCEPT !.is_solution = 1] ELSE r : r \in resps}

\* The responses after mark_as_solution: is_solution is 0 on every response of
\* the issue, then 1 on the response marked.
solution_set(resps, issue, response_id) ==
    {IF r.id = response_id THEN [r EXCEPT !.is_solution = 1]
     ELSE IF SqlEq(r.issue_id, issue.id) THEN [r EXCEPT !.is_solution = 0]
     ELSE r : r \in resps}

\* The test of mark_as_solution that lets the author of the issue and the owner
\* of its project through.
authorized(issue, u) ==
    ~(issue.user_id # u /\ Row(projects, issue.project_id).user_id # u)

\* POST /api/response/{response_id}/solution
mark_as_solution(u, response_id) ==
    /\ IF u \notin users
       THEN /\ resp' = Error("mark_as_solution", u, response_id, 401, "Not authenticated")
            /\ UNCHANGED <<issues, responses>>
       ELSE IF ~Exists(responses, response_id)
       THEN /\ resp' = Error("mark_as_solution", u, response_id, 404,
                             "Response not found")
            /\ UNCHANGED <<issues, responses>>
       ELSE IF ~Exists(issues, Row(responses, response_id).issue_id)
       THEN \* response.issue is None: issue.user_id raises AttributeError
            /\ resp' = Error("mark_as_solution", u, response_id, 500,
                             "Internal Server Error")
            /\ UNCHANGED <<issues, responses>>
       ELSE LET response == Row(responses, response_id)
                issue == Row(issues, response.issue_id)
            IN  IF authorized(issue, u)
                THEN /\ responses' = solution_set(responses, issue, response_id)
                     /\ issues' = (issues \ {issue})
                                    \cup {[issue EXCEPT !.status = "resolved"]}
                     /\ resp' = Response("mark_as_solution", u, response_id,
                                         issue.project_id, 302, "", NULL, FALSE)
                ELSE /\ resp' = Error("mark_as_solution", u, response_id, 403,
                                      "Not authorized")
                     /\ UNCHANGED <<issues, responses>>
    /\ UNCHANGED <<users, projects, posts, comments, offers, redemptions,
                   user_ratings, community, now, sweeps>>

\* POST /api/offers, with at most cap rows in the table
create_offer(u, project_id, max_redemptions, valid_until, cap) ==
    /\ Cardinality(offers) < cap
    /\ u \in users                                   \* else 401
    /\ role(u) # "tester"                            \* else 403
    /\ \E p \in projects : SqlEq(p.id, project_id) /\ SqlEq(p.user_id, u)  \* else 404
    /\ offers' = offers \cup
         {[id |-> NextId(offers), project_id |-> project_id,
           max_redemptions |-> max_redemptions, current_redemptions |-> 0,
           valid_until |-> valid_until, is_active |-> TRUE]}
    /\ resp' = Redirect("create_offer")
    /\ UNCHANGED <<users, projects, issues, responses, posts, comments, redemptions,
                   user_ratings, community, now, sweeps>>

\* PUT /api/offers/{offer_id}/toggle
toggle_offer(u, offer_id) ==
    /\ u \in users                                   \* else 401
    /\ Exists(offers, offer_id)                      \* else 404
    /\ LET offer == Row(offers, offer_id)
       IN  /\ Row(projects, offer.project_id).user_id = u   \* else 403
           /\ offers' = (offers \ {offer}) \cup
                {[offer EXCEPT !.is_active = ~offer.is_active]}
           /\ resp' = Response("toggle_offer", NULL, NULL, NULL, 200, "Offer toggled",
                               NULL, ~offer.is_active)
    /\ UNCHANGED <<users, projects, issues, responses, posts, comments, redemptions,
                   user_ratings, community, now, sweeps>>

\* The row Query.first() returns: the one with the smallest id.
First(T) == CHOOSE r \in T : \A q \in T : r.id <= q.id

\* The OfferRedemption claim_offer adds for user u at time t; the columns it does
\* not set take their defaults.
new_redemption(id, offer, u, t) ==
    [id |-> id, offer_id |-> offer.id, user_id |-> u, project_id |-> offer.project_id,
     claimed_at |-> t, deadline |-> t + CLAIM_PERIOD,
     fulfilled |-> FALSE, fulfilled_at |-> NULL,
     karma_penalty_applied |-> FALSE, karma_penalty_reversed |-> FALSE]

\* existing_redemptions that finds none.
existing_redemptions_none(reds, offer_id, u) == {}

\* The rows the query for an earlier claim of offer_id by user u selects.
existing_redemptions(reds, offer_id, u) ==
    {r \in reds : SqlEq(r.offer_id, offer_id) /\ SqlEq(r.user_id, u)}

\* increment_redemptions that leaves the counter as it is.
increment_redemptions_skipped(offer) == offer

\* offer.current_redemptions = (offer.current_redemptions or 0) + 1
increment_redemptions(offer) ==
    [offer EXCEPT !.current_redemptions = (IF Truthy(@) THEN @ ELSE 0) + 1]

\* POST /api/offers/{offer_id}/claim, with at most cap rows in offer_redemptions.
\* The handler does not await between its first query and its commit, so the
\* event loop runs it as one step: requests in flight at the same time are served
\* one after the other, in either order.
claim_offer(u, offer_id, cap) ==
    /\ IF u \notin users
       THEN /\ resp' = Error("claim_offer", u, offer_id, 401, "Not authenticated")
            /\ UNCHANGED <<offers, redemptions>>
       ELSE IF ~Exists(offers, offer_id)
       THEN /\ resp' = Error("claim_offer", u, offer_id, 404, "Offer not found")
            /\ UNCHANGED <<offers, redemptions>>
       ELSE LET offer == Row(offers, offer_id)
                existing == existing_redemptions(redemptions, offer_id, u)
            IN  IF ~is_valid(offer, now)
                THEN /\ resp' = Error("claim_offer", u, offer_id, 400,
                                      "This offer is no longer available")
                     /\ UNCHANGED <<offers, redemptions>>
                ELSE IF existing # {}
                THEN /\ resp' = Response("claim_offer", u, offer_id, offer.project_id,
                                         200, "already_claimed",
                                         First(existing).deadline,
                                         First(existing).fulfilled)
                     /\ UNCHANGED <<offers, redemptions>>
                ELSE IF Row(projects, offer.project_id).user_id = u
                THEN /\ resp' = Error("claim_offer", u, offer_id, 400,
                                      "You cannot claim your own project's offers")
                     /\ UNCHANGED <<offers, redemptions>>
                ELSE LET redemption == new_redemption(NextId(redemptions), offer, u, now)
                     IN  /\ Cardinality(redemptions) < cap
                         /\ redemptions' = redemptions \cup {redemption}
                         /\ offers' = (offers \ {offer}) \cup
                              {increment_redemptions(offer)}
                         /\ resp' = Response("claim_offer", u, offer_id,
                                             offer.project_id, 200, "claimed",
                                             redemption.deadline, FALSE)
    /\ UNCHANGED <<users, projects, issues, responses, posts, comments, user_ratings, community,
                   now, sweeps>>

\* check_and_apply_karma_penalties(db), run without interruption
check_and_apply_karma_penalties ==
    LET rows == overdue(redemptions, now)
    IN  /\ redemptions' = apply_penalties(redemptions, {r.id : r \in rows})
        /\ resp' = Response("check_and_apply_karma_penalties", NULL, NULL, NULL,
                            200, "", Cardinality(rows), FALSE)
        /\ UNCHANGED <<users, projects, issues, responses, posts, comments, offers,
                       user_ratings, community, now, sweeps>>

\* The clock moves on, up to time last.
Tick(last) ==
    /\ now < last
    /\ now' = now + 1
    /\ UNCHANGED <<users, projects, issues, responses, posts, comments, offers,
                   redemptions, user_ratings, community, sweeps, resp>>

\* check_and_apply_karma_penalties in two steps, as a request that runs beside
\* others: the SELECT of the overdue rows ...
sweep_read(s) ==
    /\ sweeps[s].pc = "idle"
    /\ sweeps' = [sweeps EXCEPT ![s] =
                    [pc |-> "write", rows |-> {r.id : r \in overdue(redemptions, now)},
                     result |-> 0]]
    /\ UNCHANGED <<users, projects, issues, responses, posts, comments, offers,
                   redemptions, user_ratings, community, now, resp>>

\* ... and the UPDATE of the rows read, committed.
sweep_write(s) ==
    /\ sweeps[s].pc = "write"
    /\ redemptions' = apply_penalties(redemptions, sweeps[s].rows)
    /\ sweeps' = [sweeps EXCEPT ![s] = [pc |-> "idle", rows |-> {},
                                        result |-> Cardinality(sweeps[s].rows)]]
    /\ resp' = Response("check_and_apply_karma_penalties", NULL, s, NULL,
                        200, "", Cardinality(sweeps[s].rows), FALSE)
    /\ UNCHANGED <<users, projects, issues, responses, posts, comments, offers,
                   user_ratings, community, now>>

\* ------------------------------------------------- routers/api.py: community
\* POST /api/messages
create_message(u) ==
    /\ Cardinality(messages) < MaxMessages
    /\ u \in users                                   \* else 401
    /\ messages' = messages \cup
         {[id |-> NextId(messages), user_id |-> u,
           upvote_count |-> 0, downvote_count |-> 0]}
    /\ resp' = Redirect("create_message")
    /\ UNCHANGED <<users, projects, issues, responses, posts, comments, offers,
                   redemptions, user_ratings, project_ratings, message_replies, votes,
                   flights, now, sweeps>>

\* POST /api/messages/{message_id}/reply
reply_to_message(u, message_id) ==
    /\ Cardinality(message_replies) < MaxReplies
    /\ u \in users                                   \* else 401
    /\ Exists(messages, message_id)                  \* else 404
    /\ message_replies' = message_replies \cup
         {[id |-> NextId(message_replies), message_id |-> message_id, user_id |-> u,
           upvote_count |-> 0, downvote_count |-> 0]}
    /\ resp' = Redirect("reply_to_message")
    /\ UNCHANGED <<users, projects, issues, responses, posts, comments, offers,
                   redemptions, user_ratings, project_ratings, messages, votes,
                   flights, now, sweeps>>

\* ------------------------------------------------------ routers/api.py: votes
\* The counter column of a vote type.
counter(vote_type) == IF vote_type = "upvote" THEN "upvote_count" ELSE "downvote_count"

\* The votes of user u on the row with id entity_id.
votes_by(table_votes, entity_id, u) ==
    {v \in table_votes : SqlEq(v.entity_id, entity_id) /\ SqlEq(v.user_id, u)}

\* cast_vote that keeps the vote record when the same vote comes again.
cast_vote_keeping_record(row, table_votes, u, vote_type) ==
    LET existing == votes_by(table_votes, row.id, u)
    IN  IF existing # {} /\ First(existing).vote_type = vote_type
        THEN [row |-> [row EXCEPT ![counter(vote_type)] = Max({0, @ - 1})],
              votes |-> table_votes,
              voted |-> "none"]
        ELSE IF existing # {}
        THEN [row |-> [row EXCEPT ![counter(First(existing).vote_type)] = Max({0, @ - 1}),
                                  ![counter(vote_type)] = @ + 1],
              votes |-> (table_votes \ {First(existing)})
                        \cup {[First(existing) EXCEPT !.vote_type = vote_type]},
              voted |-> vote_type]
        ELSE [row |-> [row EXCEPT ![counter(vote_type)] = @ + 1],
              votes |-> table_votes \cup
                        {[id |-> NextId(table_votes), entity_id |-> row.id,
                          user_id |-> u, vote_type |-> vote_type]},
              voted |-> vote_type]

\* cast_vote that counts a switched vote on the new counter only.
cast_vote_not_uncounting(row, table_votes, u, vote_type) ==
    LET existing == votes_by(table_votes, row.id, u)
    IN  IF existing # {} /\ First(existing).vote_type = vote_type
        THEN [row |-> [row EXCEPT ![counter(vote_type)] = Max({0, @ - 1})],
              votes |-> table_votes \ {First(existing)},
              voted |-> "none"]
        ELSE IF existing # {}
        THEN [row |-> [row EXCEPT ![counter(vote_type)] = @ + 1],
              votes |-> (table_votes \ {First(existing)})
                        \cup {[First(existing) EXCEPT !.vote_type = vote_type]},
              voted |-> vote_type]
        ELSE [row |-> [row EXCEPT ![counter(vote_type)] = @ + 1],
              votes |-> table_votes \cup
                        {[id |-> NextId(table_votes), entity_id |-> row.id,
                          user_id |-> u, vote_type |-> vote_type]},
              voted |-> vote_type]

\* What a valid vote of user u does to the row voted on and to its vote table:
\* the same vote again takes the vote back, the other vote type switches the
\* record in place, a first vote adds a record.
cast_vote(row, table_votes, u, vote_type) ==
    LET existing == votes_by(table_votes, row.id, u)
    IN  IF existing # {} /\ First(existing).vote_type = vote_type
        THEN [row |-> [row EXCEPT ![counter(vote_type)] = Max({0, @ - 1})],
              votes |-> table_votes \ {First(existing)},
              voted |-> "none"]
        ELSE IF existing # {}
        THEN [row |-> [row EXCEPT ![counter(First(existing).vote_type)] = Max({0, @ - 1}),
                                  ![counter(vote_type)] = @ + 1],
              votes |-> (table_votes \ {First(existing)})
                        \cup {[First(existing) EXCEPT !.vote_type = vote_type]},
              voted |-> vote_type]
        ELSE [row |-> [row EXCEPT ![counter(vote_type)] = @ + 1],
              votes |-> table_votes \cup
                        {[id |-> NextId(table_votes), entity_id |-> row.id,
                          user_id |-> u, vote_type |-> vote_type]},
              voted |-> vote_type]

\* rejection that lets the author of a row vote on it.
rejection_without_author(T, u, id, vote_type) ==
    IF u \notin users THEN [code |-> 401, detail |-> "Not authenticated"]
    ELSE IF ~Exists(T, id) THEN [code |-> 404, detail |-> "Not found"]
    ELSE IF vote_type \notin {"upvote", "downvote"}
         THEN [code |-> 400, detail |-> "Invalid vote type"]
    ELSE [code |-> 200, detail |-> ""]

\* The checks every vote handler makes first, in their order: the session user,
\* the row, its author, the vote type.  Code 200 when the vote passes them.
rejection(T, u, id, vote_type) ==
    IF u \notin users THEN [code |-> 401, detail |-> "Not authenticated"]
    ELSE IF ~Exists(T, id) THEN [code |-> 404, detail |-> "Not found"]
    ELSE IF Row(T, id).user_id = u THEN [code |-> 400, detail |-> "Cannot vote for own"]
    ELSE IF vote_type \notin {"upvote", "downvote"}
         THEN [code |-> 400, detail |-> "Invalid vote type"]
    ELSE [code |-> 200, detail |-> ""]

\* The body of vote_post, vote_comment, vote_message and vote_message_reply, run
\* without another request in between: the table T and its vote table afterwards,
\* and the response (detail: voted, value: upvotes).
vote_outcome(op, T, table_votes, u, id, vote_type) ==
    LET rejected == rejection(T, u, id, vote_type)
    IN  IF rejected.code # 200
        THEN [rows |-> T, votes |-> table_votes,
              resp |-> Error(op, u, id, rejected.code, rejected.detail)]
        ELSE LET cast == cast_vote(Row(T, id), table_votes, u, vote_type)
             IN  [rows |-> (T \ {Row(T, id)}) \cup {cast.row},
                  votes |-> cast.votes,
                  resp |-> Response(op, u, id, NULL, 200, cast.voted,
                                    cast.row.upvote_count, FALSE)]

\* The response of vote_response and vote_issue, which commit nothing:
\* ResponseVote and IssueVote have no column vote_type, so the constructor call
\* of a first vote raises TypeError, and no other code adds a row to their tables.
helpful_vote_response(op, T, u, id, vote_type) ==
    LET rejected == rejection(T, u, id, vote_type)
    IN  IF rejected.code # 200
        THEN Error(op, u, id, rejected.code, rejected.detail)
        ELSE Error(op, u, id, 500, "Internal Server Error")

\* POST /api/post/{post_id}/vote
vote_post(u, post_id, vote_type) ==
    LET out == vote_outcome("vote_post", posts, votes["post"], u, post_id, vote_type)
    IN  /\ posts' = out.rows
        /\ votes' = [votes EXCEPT !["post"] = out.votes]
        /\ resp' = out.resp
        /\ UNCHANGED <<users, projects, issues, responses, comments, offers,
                       redemptions, user_ratings, project_ratings, messages,
                       message_replies, flights, now, sweeps>>

\* POST /api/comment/{comment_id}/vote
vote_comment(u, comment_id, vote_type) ==
    LET out == vote_outcome("vote_comment", comments, votes["comment"], u, comment_id,
                            vote_type)
    IN  /\ comments' = out.rows
        /\ votes' = [votes EXCEPT !["comment"] = out.votes]
        /\ resp' = out.resp
        /\ UNCHANGED <<users, projects, issues, responses, posts, offers,
                       redemptions, user_ratings, project_ratings, messages,
                       message_replies, flights, now, sweeps>>

\* POST /api/messages/{message_id}/vote
vote_message(u, message_id, vote_type) ==
    LET out == vote_outcome("vote_message", messages, votes["message"], u, message_id,
                            vote_type)
    IN  /\ messages' = out.rows
        /\ votes' = [votes EXCEPT !["message"] = out.votes]
        /\ resp' = out.resp
        /\ UNCHANGED <<users, projects, issues, responses, posts, comments, offers,
                       redemptions, user_ratings, project_ratings, message_replies,
                       flights, now, sweeps>>

\* POST /api/messages/reply/{reply_id}/vote
vote_message_reply(u, reply_id, vote_type) ==
    LET out == vote_outcome("vote_message_reply", message_replies, votes["reply"], u,
                            reply_id, vote_type)
    IN  /\ message_replies' = out.rows
        /\ votes' = [votes EXCEPT !["reply"] = out.votes]
        /\ resp' = out.resp
        /\ UNCHANGED <<users, projects, issues, responses, posts, comments, offers,
                       redemptions, user_ratings, project_ratings, messages,
                       flights, now, sweeps>>

\* POST /api/response/{response_id}/vote
vote_response(u, response_id, vote_type) ==
    /\ resp' = helpful_vote_response("vote_response", responses, u, response_id, vote_type)
    /\ UNCHANGED <<users, projects, issues, responses, posts, comments, offers,
                   redemptions, user_ratings, community, now, sweeps>>

\* vote_response as a request that runs beside others.  Up to
\* `await request.json()` it has loaded the response and found that the session
\* user is not its author ...
vote_response_load(q, u, response_id) ==
    /\ flights[q].pc = "idle"
    /\ u \in users                                   \* else 401
    /\ Exists(responses, response_id)                \* else 404
    /\ Row(responses, response_id).user_id # u       \* else 400
    /\ flights' = [flights EXCEPT ![q] =
                     [Idle EXCEPT !.pc = "body", !.kind = "response", !.user = u,
                                  !.target = response_id,
                                  !.upvotes = Row(responses, response_id).helpful_count,
                                  !.beside = {o \in Requests : flights[o].pc = "body"}]]
    /\ UNCHANGED <<users, projects, issues, responses, posts, comments, offers,
                   redemptions, user_ratings, project_ratings, messages,
                   message_replies, votes, now, sweeps, resp>>

\* ... and once the body is there it checks the vote type, queries the vote of
\* the user and fails at the constructor call of the new vote, or at the
\* attribute vote_type of the one it found; nothing is committed.
vote_response_finish(q, vote_type) ==
    /\ flights[q].pc = "body"
    /\ flights[q].kind = "response"
    /\ LET code == IF vote_type \notin {"upvote", "downvote"} THEN 400 ELSE 500
       IN  /\ flights' = [flights EXCEPT ![q].pc = "done",
                                          ![q].vote_type = vote_type,
                                          ![q].code = code]
           /\ resp' = Error("vote_response", flights[q].user, flights[q].target, code,
                            IF code = 400 THEN "Invalid vote type"
                                          ELSE "Internal Server Error")
    /\ UNCHANGED <<users, projects, issues, responses, posts, comments, offers,
                   redemptions, user_ratings, project_ratings, messages,
                   message_replies, votes, now, sweeps>>

\* POST /api/issue/{issue_id}/vote
vote_issue(u, issue_id, vote_type) ==
    /\ resp' = helpful_vote_response("vote_issue", issues, u, issue_id, vote_type)
    /\ UNCHANGED <<users, projects, issues, responses, posts, comments, offers,
                   redemptions, user_ratings, community, now, sweeps>>

\* ---------------------------------------------------- routers/api.py: ratings
\* The test for a rating of one's own project.
self_rating_project(project, u) == project.user_id = u

\* upsert that adds a row whether or not there is one.
upsert_adding(ratings, existing, new_rating) == ratings \cup {new_rating}

\* The ratings table after the handler's `if existing_rating: ... else: db.add`:
\* the stars of the existing row are replaced, or new_rating is added.
upsert(ratings, existing, new_rating) ==
    IF existing # {}
    THEN (ratings \ {First(existing)})
         \cup {[First(existing) EXCEPT !.stars = new_rating.stars]}
    ELSE ratings \cup {new_rating}

\* POST /api/project/{project_id}/rate (response: value is your_rating)
rate_project(u, project_id, stars) ==
    /\ IF u \notin users
       THEN /\ resp' = Error("rate_project", u, project_id, 401, "Nicht eingeloggt")
            /\ UNCHANGED project_ratings
       ELSE IF ~Exists(projects, project_id)
       THEN /\ resp' = Error("rate_project", u, project_id, 404, "Projekt nicht gefunden")
            /\ UNCHANGED project_ratings
       ELSE IF self_rating_project(Row(projects, project_id), u)
       THEN /\ resp' = Error("rate_project", u, project_id, 400,
                             "Du kannst dein eigenes Projekt nicht bewerten")
            /\ UNCHANGED project_ratings
       ELSE IF ~(1 <= stars /\ stars <= 5)
       THEN /\ resp' = Error("rate_project", u, project_id, 400,
                             "Bewertung muss zwischen 1 und 5 Sternen sein")
            /\ UNCHANGED project_ratings
       ELSE LET existing == {g \in project_ratings :
                               SqlEq(g.project_id, project_id) /\ SqlEq(g.user_id, u)}
            IN  /\ project_ratings' =
                     upsert(project_ratings, existing,
                            [id |-> NextId(project_ratings), project_id |-> project_id,
                             user_id |-> u, stars |-> stars])
                /\ resp' = Response("rate_project", u, project_id, project_id, 200,
                                    "success", stars, FALSE)
    /\ UNCHANGED <<users, projects, issues, responses, posts, comments, offers,
                   redemptions, user_ratings, messages, message_replies, votes,
                   flights, now, sweeps>>

\* POST /api/user/{username}/rate, target being the user of that name
\* (response: value is your_rating)
rate_user(u, target, stars) ==
    /\ IF u \notin users
       THEN /\ resp' = Error("rate_user", u, target, 401, "Nicht eingeloggt")
            /\ UNCHANGED user_ratings
       ELSE IF target \notin users
       THEN /\ resp' = Error("rate_user", u, target, 404, "User nicht gefunden")
            /\ UNCHANGED user_ratings
       ELSE IF target = u
       THEN /\ resp' = Error("rate_user", u, target, 400,
                             "Du kannst dich selbst nicht bewerten")
            /\ UNCHANGED user_ratings
       ELSE IF ~(1 <= stars /\ stars <= 5)
       THEN /\ resp' = Error("rate_user", u, target, 400,
                             "Bewertung muss zwischen 1 und 5 Sternen sein")
            /\ UNCHANGED user_ratings
       ELSE LET existing == {g \in user_ratings :
                               SqlEq(g.rated_user_id, target) /\ SqlEq(g.rater_user_id, u)}
            IN  /\ user_ratings' =
                     upsert(user_ratings, existing,
                            [id |-> NextId(user_ratings), rated_user_id |-> target,
                             rater_user_id |-> u, stars |-> stars])
                /\ resp' = Response("rate_user", u, target, NULL, 200,
                                    "success", stars, FALSE)
    /\ UNCHANGED <<users, projects, issues, responses, posts, comments, offers,
                   redemptions, community, now, sweeps>>

\* DELETE /api/privacy/delete-account
delete_account(u) ==
    /\ u \in users                                   \* else 401
    /\ LET \* 2. ratings by and for this user
           ratings2 == {g \in user_ratings :
                          ~SqlEq(g.rater_user_id, u) /\ ~SqlEq(g.rated_user_id, u)}
           \* 3. and 4. replies and messages by this user, and the replies to them
           messages4 == {m \in messages : ~SqlEq(m.user_id, u)}
           replies4 == {a \in message_replies :
                          /\ ~SqlEq(a.user_id, u)
                          /\ \E m \in messages4 : a.message_id = m.id}
           \* 5. responses by this user
           responses5 == {r \in responses : ~SqlEq(r.user_id, u)}
           \* 6. issues by this user: deleted, or kept without author when others responded
           own_issues == {i \in issues : SqlEq(i.user_id, u)}
           answered(i) == \E r \in responses5 : SqlEq(r.issue_id, i.id) /\ SqlNe(r.user_id, u)
           deleted6 == {i \in own_issues : ~answered(i)}
           issues6 == (issues \ own_issues)
                      \cup {[i EXCEPT !.user_id = NULL] : i \in own_issues \ deleted6}
           responses6 == {r \in responses5 : \A i \in deleted6 : r.issue_id # i.id}
           \* 7. projects of this user, their offers, posts and unanswered issues
           user_projects == {p \in projects : SqlEq(p.user_id, u)}
           mine(project_id) == \E p \in user_projects : SqlEq(project_id, p.id)
           offers7 == {o \in offers : ~mine(o.project_id)}
           posts7 == {q \in posts : ~mine(q.project_id)}
           comments7 == {c \in comments : \E q \in posts7 : c.post_id = q.id}
           has_responses(i) == \E r \in responses6 : SqlEq(r.issue_id, i.id)
           issues7 == {i \in issues6 : ~(mine(i.project_id) /\ ~has_responses(i))}
           remaining == {p \in user_projects : \E i \in issues7 : SqlEq(i.project_id, p.id)}
           \* 8. posts and comments by this user elsewhere
           posts8 == {q \in posts7 : ~SqlEq(q.user_id, u)}
           comments8 == {c \in comments7 :
                           (\E q \in posts8 : c.post_id = q.id) /\ ~SqlEq(c.user_id, u)}
           \* 1., 5., 6. and 7. votes by this user on responses and issues, and the
           \*    votes on the responses and issues deleted; 2. and 7. project ratings
           \*    by this user and of this user's projects
           votes9 == [k \in Kinds |->
                        IF k = "response"
                        THEN {v \in votes[k] : /\ ~SqlEq(v.user_id, u)
                                               /\ Exists(responses6, v.entity_id)}
                        ELSE IF k = "issue"
                        THEN {v \in votes[k] : /\ ~SqlEq(v.user_id, u)
                                               /\ Exists(issues7, v.entity_id)}
                        ELSE votes[k]]
           project_ratings7 == {g \in project_ratings :
                                  ~SqlEq(g.user_id, u) /\ ~mine(g.project_id)}
           \* 9. db.delete(user) sets user_id to NULL in the rows that still refer to
           \*    the user; projects.user_id, offer_redemptions.user_id and the
           \*    user_id of the votes on posts, comments, messages and replies are
           \*    NOT NULL
           integrity_error == \/ remaining # {}
                              \/ \E r \in redemptions : SqlEq(r.user_id, u)
                              \/ \E k \in {"post", "comment", "message", "reply"} :
                                    \E v \in votes[k] : SqlEq(v.user_id, u)
       IN  IF integrity_error
           THEN /\ resp' = Error("delete_account", u, NULL, 500, "Failed to delete account")
                /\ UNCHANGED <<users, projects, issues, responses, posts, comments,
                               offers, redemptions, user_ratings, community, now, sweeps>>
           ELSE /\ users' = users \ {u}
                /\ projects' = projects \ user_projects
                /\ issues' = issues7
                /\ responses' = responses6
                /\ posts' = posts8
                /\ comments' = comments8
                /\ offers' = offers7
                /\ user_ratings' = ratings2
                /\ project_ratings' = project_ratings7
                /\ messages' = messages4
                /\ message_replies' = replies4
                /\ votes' = votes9
                /\ resp' = Response("delete_account", u, NULL, NULL, 200,
                                    "Account and all data deleted successfully", NULL, FALSE)
                /\ UNCHANGED <<redemptions, flights, now, sweeps>>

\* ------------------------------------------------------------------- specs
\* Projects, issues, responses and account deletion.
Next ==
    \/ \E u \in Users : create_project(u)
    \/ \E u \in Users, p \in 1..MaxProjects : create_issue(u, p, MaxIssues)
    \/ \E u \in Users, i \in 1..MaxIssues : respond_to_issue(u, i, MaxResponses)
    \/ \E u \in Users : delete_account(u)

Spec == Init /\ [][Next]_vars

\* Projects and issues only, with room for enough issues to pass KARMA_LIMIT.
NextKarma ==
    \/ \E u \in Users : create_project(u)
    \/ \E u \in Users, p \in 1..MaxProjects : create_issue(u, p, MaxKarmaIssues)

SpecKarma == Init /\ [][NextKarma]_vars

\* The values a create_offer form sends for max_redemptions and valid_until.
Caps == {NULL} \cup 0..MaxCap
Untils == {NULL} \cup 0..MaxValidUntil

\* Offers and claims, one request at a time.
NextClaim ==
    \/ \E u \in Users : create_project(u)
    \/ \E u \in Users, p \in 1..MaxProjects, c \in Caps, v \in Untils :
          create_offer(u, p, c, v, MaxClaimOffers)
    \/ \E u \in Users, o \in 1..MaxClaimOffers : toggle_offer(u, o)
    \/ \E u \in Users, o \in 1..MaxClaimOffers + 1 : claim_offer(u, o, MaxRedemptions)
    \/ Tick(MaxClaimTime)

SpecClaim == Init /\ [][NextClaim]_vars

\* Claims of open-ended offers, the obligations they create, the actions that
\* fulfil them and the sweep, one request at a time.
ObligationUsers == 1..NumObligationUsers

\* Rows written by the requests that fulfil obligations.
content_rows ==
    Cardinality(comments) + Cardinality(responses)
    + Cardinality({i \in issues : i.source_platform = USER_PLATFORM})

NextObligation ==
    \/ \E u \in ObligationUsers : create_project(u)
    \/ \E u \in ObligationUsers, p \in 1..MaxProjects : create_post(u, p)
    \/ content_rows < MaxContent
       /\ \E u \in ObligationUsers, q \in 1..MaxPosts : create_comment(u, q)
    \/ content_rows < MaxContent
       /\ \E u \in ObligationUsers, p \in 1..MaxProjects : create_issue(u, p, MaxIssues)
    \/ content_rows < MaxContent
       /\ \E u \in ObligationUsers, i \in 1..MaxIssues : respond_to_issue(u, i, MaxResponses)
    \/ \E u \in ObligationUsers, p \in 1..MaxProjects :
          create_offer(u, p, NULL, NULL, MaxOffers)
    \/ \E u \in ObligationUsers, o \in 1..MaxOffers : claim_offer(u, o, MaxRedemptions)
    \/ check_and_apply_karma_penalties
    \/ Tick(MaxTime)

SpecObligation == Init /\ [][NextObligation]_vars

\* Claims, two sweeps that run beside each other and beside the requests that
\* fulfil obligations.
NextSweep ==
    \/ \E u \in ObligationUsers : create_project(u)
    \/ \E u \in ObligationUsers, p \in 1..MaxProjects :
          create_offer(u, p, NULL, NULL, MaxOffers)
    \/ \E u \in ObligationUsers, o \in 1..MaxOffers : claim_offer(u, o, MaxRedemptions)
    \/ content_rows < MaxContent
       /\ \E u \in ObligationUsers, p \in 1..MaxProjects : create_issue(u, p, MaxIssues)
    \/ \E s \in Sweepers : sweep_read(s)
    \/ \E s \in Sweepers : sweep_write(s)
    \/ Tick(MaxTime)

SpecSweep == Init /\ [][NextSweep]_vars

\* The vote types and the stars a request body carries.
VoteTypes == {"upvote", "downvote", "funny"}
Stars == {0, 5}

\* Rows written by the requests that create what is voted on, and ratings.
community_rows ==
    Cardinality(posts) + Cardinality(comments) + Cardinality(responses)
    + Cardinality({i \in issues : i.source_platform = USER_PLATFORM})
    + Cardinality(messages) + Cardinality(message_replies)
    + Cardinality(project_ratings) + Cardinality(user_ratings)

RECURSIVE vote_rows(_, _)
\* The number of rows in the vote tables vs of the kinds ks.
vote_rows(vs, ks) ==
    IF ks = {} THEN 0
    ELSE LET k == CHOOSE x \in ks : TRUE
         IN  Cardinality(vs[k]) + vote_rows(vs, ks \ {k})

\* The vote tables vs hold at most cap rows, with ids up to MaxVoteId.
votes_within(vs, cap) ==
    /\ vote_rows(vs, Kinds) <= cap
    /\ \A k \in Kinds : \A v \in vs[k] : v.id <= MaxVoteId

\* The request passes the checks of its vote handler.
valid_vote(T, u, id, vote_type) == rejection(T, u, id, vote_type).code = 200

\* One project, what can be voted on, and the votes that pass the checks, one
\* request at a time.
NextVote ==
    \/ projects = {} /\ \E u \in Users : create_project(u)
    \/ community_rows < MaxCommunityRows
       /\ \E u \in Users, p \in 1..MaxProjects : create_post(u, p)
    \/ community_rows < MaxCommunityRows
       /\ \E u \in Users, q \in 1..MaxPosts : create_comment(u, q)
    \/ community_rows < MaxCommunityRows
       /\ \E u \in Users, p \in 1..MaxProjects : create_issue(u, p, MaxIssues)
    \/ community_rows < MaxCommunityRows
       /\ \E u \in Users, i \in 1..MaxIssues : respond_to_issue(u, i, MaxResponses)
    \/ community_rows < MaxCommunityRows
       /\ \E u \in Users : create_message(u)
    \/ community_rows < MaxCommunityRows
       /\ \E u \in Users, m \in 1..MaxMessages : reply_to_message(u, m)
    \/ \E u \in Users, q \in 1..MaxPosts, t \in VoteTypes :
          /\ valid_vote(posts, u, q, t)
          /\ vote_post(u, q, t)
          /\ votes_within(votes', MaxVotes)
    \/ \E u \in Users, c \in 1..MaxComments, t \in VoteTypes :
          /\ valid_vote(comments, u, c, t)
          /\ vote_comment(u, c, t)
          /\ votes_within(votes', MaxVotes)
    \/ \E u \in Users, m \in 1..MaxMessages, t \in VoteTypes :
          /\ valid_vote(messages, u, m, t)
          /\ vote_message(u, m, t)
          /\ votes_within(votes', MaxVotes)
    \/ \E u \in Users, a \in 1..MaxReplies, t \in VoteTypes :
          /\ valid_vote(message_replies, u, a, t)
          /\ vote_message_reply(u, a, t)
          /\ votes_within(votes', MaxVotes)
    \/ \E u \in Users, a \in 1..MaxResponses, t \in VoteTypes :
          valid_vote(responses, u, a, t) /\ vote_response(u, a, t)
    \/ \E u \in Users, i \in 1..MaxIssues, t \in VoteTypes :
          valid_vote(issues, u, i, t) /\ vote_issue(u, i, t)

SpecVote == Init /\ [][NextVote]_vars

\* One project, what can be voted on and rated, and every vote and rating
\* request, the rejected ones included, one request at a time.
NextReject ==
    \/ projects = {} /\ \E u \in Users : create_project(u)
    \/ community_rows < MaxCommunityRows
       /\ \E u \in Users, p \in 1..MaxProjects : create_post(u, p)
    \/ community_rows < MaxCommunityRows
       /\ \E u \in Users, q \in 1..MaxPosts : create_comment(u, q)
    \/ community_rows < MaxCommunityRows
       /\ \E u \in Users, p \in 1..MaxProjects : create_issue(u, p, MaxIssues)
    \/ community_rows < MaxCommunityRows
       /\ \E u \in Users, i \in 1..MaxIssues : respond_to_issue(u, i, MaxResponses)
    \/ community_rows < MaxCommunityRows
       /\ \E u \in Users : create_message(u)
    \/ community_rows < MaxCommunityRows
       /\ \E u \in Users, m \in 1..MaxMessages : reply_to_message(u, m)
    \/ \E u \in Users, q \in 1..MaxPosts, t \in VoteTypes :
          vote_post(u, q, t) /\ votes_within(votes', MaxRejectVotes)
    \/ \E u \in Users, c \in 1..MaxComments, t \in VoteTypes :
          vote_comment(u, c, t) /\ votes_within(votes', MaxRejectVotes)
    \/ \E u \in Users, m \in 1..MaxMessages, t \in VoteTypes :
          vote_message(u, m, t) /\ votes_within(votes', MaxRejectVotes)
    \/ \E u \in Users, a \in 1..MaxReplies, t \in VoteTypes :
          vote_message_reply(u, a, t) /\ votes_within(votes', MaxRejectVotes)
    \/ \E u \in Users, a \in 1..MaxResponses, t \in VoteTypes : vote_response(u, a, t)
    \/ \E u \in Users, i \in 1..MaxIssues, t \in VoteTypes : vote_issue(u, i, t)
    \/ \E u \in Users, p \in 1..MaxProjects, n \in Stars :
          rate_project(u, p, n) /\ community_rows' <= MaxCommunityRows
    \/ \E u, target \in Users, n \in Stars :
          rate_user(u, target, n) /\ community_rows' <= MaxCommunityRows

SpecReject == Init /\ [][NextReject]_vars

\* Responses, and the vote requests on them that the server holds at the same
\* time, interleaved where the handler awaits the request body.
NextVoteRace ==
    \/ projects = {} /\ \E u \in Users : create_project(u)
    \/ \E u \in Users, p \in 1..MaxProjects : create_issue(u, p, MaxRaceIssues)
    \/ \E u \in Users, i \in 1..MaxRaceIssues : respond_to_issue(u, i, MaxResponses)
    \/ \E q \in Requests, u \in Users, a \in 1..MaxResponses :
          vote_response_load(q, u, a)
    \/ \E q \in Requests, t \in VoteTypes : vote_response_finish(q, t)

SpecVoteRace == Init /\ [][NextVoteRace]_vars

\* Rows written by the requests that move the scores of the leaderboard.
board_rows ==
    Cardinality(responses) + Cardinality(user_ratings) + Cardinality(redemptions)
    + Cardinality({i \in issues : i.source_platform = USER_PLATFORM})

\* What the leaderboard counts: issues, responses and solutions, five-star
\* ratings, and the penalties of claims not fulfilled in time.
NextBoard ==
    \/ projects = {} /\ \E u \in Users : create_project(u)
    \/ board_rows < MaxBoardRows
       /\ \E u \in Users, p \in 1..MaxProjects :
             create_issue(u, p, MaxBoardIssues) /\ issues' # issues
    \/ board_rows < MaxBoardRows /\ Cardinality(responses) < MaxResponses
       /\ \E u \in Users, i \in 1..MaxBoardIssues :
             respond_to_issue(u, i, MaxResponses) /\ responses' # responses
    \/ \E u \in Users, a \in 1..MaxResponses :
          mark_as_solution(u, a) /\ resp'.code = 302
    \/ \E u, target \in Users, n \in Stars :
          /\ rate_user(u, target, n)
          /\ user_ratings' # user_ratings
          /\ board_rows' <= MaxBoardRows
          /\ Cardinality(user_ratings') <= MaxBoardRatings
    \/ \E u \in Users, p \in 1..MaxProjects :
          create_offer(u, p, NULL, NULL, MaxClaimOffers) /\ offers' # offers
    \/ board_rows < MaxBoardRows
       /\ \E u \in Users, o \in 1..MaxClaimOffers :
             claim_offer(u, o, MaxBoardClaims) /\ redemptions' # redemptions
    \/ check_and_apply_karma_penalties
    \/ Tick(MaxTime)

SpecBoard == Init /\ [][NextBoard]_vars

\* The requests of the application around an offer: claims, the issues that
\* fulfil them and loads of the leaderboard, while time passes. No handler calls
\* check_and_apply_karma_penalties.
NextServe ==
    \/ projects = {} /\ \E u \in Users : create_project(u)
    \/ \E u \in Users, p \in 1..MaxProjects :
          create_offer(u, p, NULL, NULL, MaxClaimOffers)
    \/ \E u \in Users, o \in 1..MaxClaimOffers :
          claim_offer(u, o, MaxRedemptions) /\ redemptions' # redemptions
    \/ \E u \in Users, p \in 1..MaxProjects : create_issue(u, p, MaxIssues)
    \/ leaderboard_request
    \/ Tick(MaxTime)

SpecServe == Init /\ [][NextServe]_vars

\* The server keeps answering: a leaderboard that can be loaded is loaded, and
\* time passes.
LiveServe == SpecServe /\ WF_vars(leaderboard_request) /\ WF_vars(Tick(MaxTime))

\* One project, its issues, the responses to them and every request to mark one
\* of them as the solution.
NextSolution ==
    \/ projects = {} /\ \E u \in Users : create_project(u)
    \/ \E u \in Users, p \in 1..MaxProjects : create_issue(u, p, MaxSolutionIssues)
    \/ \E u \in Users, i \in 1..MaxSolutionIssues :
          respond_to_issue(u, i, MaxSolutionResponses)
    \/ \E u \in Users, a \in 1..MaxSolutionResponses : mark_as_solution(u, a)

SpecSolution == Init /\ [][NextSolution]_vars

\* The rows of IssueVote and ResponseVote for the votes of the users in voters
\* on entity_id: the two tables have no column vote_type.
helpful_votes(voters, entity_id) ==
    {[id |-> v, entity_id |-> entity_id, user_id |-> v] : v \in voters}

\* A database that holds helpful votes: user 1 owns a project, a user has written
\* an issue for it and a user has responded to that issue; issue_votes and
\* response_votes hold votes of other users on the two, and helpful_count of
\* each is the number of its votes.
InitStored ==
    \E author, responder \in Users :
    \E issue_voters \in SUBSET (Users \ {author}) :
    \E response_voters \in SUBSET (Users \ {responder}) :
        /\ users = Users
        /\ projects = {[id |-> 1, user_id |-> 1]}
        /\ issues = {welcome_issue(1, 1),
                     [id |-> 2, project_id |-> 1, user_id |-> author,
                      source_platform |-> USER_PLATFORM, status |-> "open",
                      helpful_count |-> Cardinality(issue_voters),
                      github_reactions |-> 0, github_negative_reactions |-> 0]}
        /\ responses = {[id |-> 1, issue_id |-> 2, user_id |-> responder,
                         helpful_count |-> Cardinality(response_voters),
                         is_solution |-> 0]}
        /\ posts = {}
        /\ comments = {}
        /\ offers = {}
        /\ redemptions = {}
        /\ user_ratings = {}
        /\ project_ratings = {}
        /\ messages = {}
        /\ message_replies = {}
        /\ votes = [k \in Kinds |->
                      IF k = "issue" THEN helpful_votes(issue_voters, 2)
                      ELSE IF k = "response" THEN helpful_votes(response_voters, 1)
                      ELSE {}]
        /\ flights = [q \in Requests |-> Idle]
        /\ now = 0
        /\ sweeps = [s \in Sweepers |-> [pc |-> "idle", rows |-> {}, result |-> 0]]
        /\ resp = Error("init", NULL, NULL, 200, "")

\* Accounts are deleted from that database.
NextStored == \E u \in Users : delete_account(u)

SpecStored == InitStored /\ [][NextStored]_vars

\* The values of "stars" in the body of a rating request.
RatingStars == {0, 1, 5, 6}

\* Projects, and every rating request for projects and users.
NextRate ==
    \/ \E u \in Users : create_project(u)
    \/ \E u \in Users, p \in 1..MaxProjects, n \in RatingStars :
          /\ rate_project(u, p, n)
          /\ Cardinality(project_ratings') + Cardinality(user_ratings) <= MaxRatings
    \/ \E u, target \in Users, n \in RatingStars :
          /\ rate_user(u, target, n)
          /\ Cardinality(project_ratings) + Cardinality(user_ratings') <= MaxRatings

SpecRate == Init /\ [][NextRate]_vars

\* The users who signed in after the first ones.
crowd == users \ Users

\* A leaderboard of more than LEADERBOARD_LIMIT users: one project, testers who
\* sign in and write an issue for it one after the other, and five-star ratings
\* once LEADERBOARD_LIMIT users have signed in.
NextCrowd ==
    \/ projects = {} /\ \E u \in Users : create_project(u)
    \/ /\ projects # {}
       /\ \A u \in crowd : \E i \in issues : i.user_id = u
       /\ google_callback(NumCrowd)
    \/ \E u \in crowd, p \in 1..MaxProjects :
          /\ \A i \in issues : i.user_id # u
          /\ create_issue(u, p, NumCrowd)
    \/ \E u \in Users, target \in users :
          /\ Cardinality(users) >= LEADERBOARD_LIMIT
          /\ rate_user(u, target, 5)
          /\ user_ratings' # user_ratings
          /\ Cardinality(user_ratings') <= MaxCrowdRatings

SpecCrowd == Init /\ [][NextCrowd]_vars

\* ------------------------------------------------------------------ claims
\* The karma of user u in the current store.
karma_of(u) == calculate_test_karma(issues, projects, redemptions, u)

\* The owner of project project_id, NULL when there is no such project.
owner_of(project_id) ==
    IF Exists(projects, project_id) THEN Row(projects, project_id).user_id ELSE NULL

\* No issue was written by u, none is on a project of u, and u has no redemption.
no_activity(u) ==
    /\ \A i \in issues : i.user_id # u /\ owner_of(i.project_id) # u
    /\ \A r \in redemptions : r.user_id # u

\* C1: for every user, karma is given - received - offer_penalties and
\* is_blocked is exactly karma < -5; a user with no issues and no redemptions
\* has given, received, offer_penalties, pending_obligations and karma 0 and is
\* not blocked.
C1_KarmaIdentity ==
    \A u \in Users :
        LET k == karma_of(u)
        IN  /\ k.karma = k.given - k.received - k.offer_penalties
            /\ k.is_blocked = (k.karma < -5)
            /\ no_activity(u) =>
                  /\ k.given = 0 /\ k.received = 0 /\ k.offer_penalties = 0
                  /\ k.pending_obligations = 0 /\ k.karma = 0
                  /\ ~k.is_blocked

\* C1: one user stands at karma -6 and is blocked, another has no activity.
C1_Witness ==
    /\ \E u \in Users : karma_of(u).karma = -6 /\ karma_of(u).is_blocked
    /\ \E u \in Users : no_activity(u)

\* The counts of the karma breakdown, read off the rows: an issue whose author
\* is gone is still an issue somebody else wrote.
non_system(iss) == {i \in iss : i.source_platform # SYSTEM_PLATFORM}
count_given(u) ==
    Cardinality({i \in non_system(issues) :
                   i.user_id = u /\ owner_of(i.project_id) # u})
count_received(u) ==
    Cardinality({i \in non_system(issues) :
                   owner_of(i.project_id) = u /\ i.user_id # u})
count_penalties(u) ==
    Cardinality({r \in redemptions : r.user_id = u /\ r.karma_penalty_applied
                                       /\ ~r.karma_penalty_reversed})
count_pending(u) ==
    Cardinality({r \in redemptions : r.user_id = u /\ ~r.fulfilled})

\* C2: given is the number of non-system issues the user wrote on projects of
\* others, received the number of non-system issues others wrote on the user's
\* projects, offer_penalties the number of the user's redemptions penalised and
\* not reversed, pending_obligations the number of the user's unfulfilled ones.
C2_Counts ==
    \A u \in users :
        LET k == karma_of(u)
        IN  /\ k.given = count_given(u)
            /\ k.received = count_received(u)
            /\ k.offer_penalties = count_penalties(u)
            /\ k.pending_obligations = count_pending(u)

\* given, received and karma of user u over the issues iss.
karma_over(iss, u) ==
    LET k == calculate_test_karma(iss, projects, redemptions, u)
    IN  <<k.given, k.received, k.karma>>

entry_over(iss, u) == user_scores(iss, responses, projects, redemptions, user_ratings, u)

\* C4: total_score of get_leaderboard and of get_my_leaderboard_stats, and
\* whether a user is on the leaderboard, are the same with and without the
\* system issues in the store.
C4_LeaderboardNeutral ==
    \A u \in users :
        /\ total_score(entry_over(issues, u)) = total_score(entry_over(non_system(issues), u))
        /\ listed(entry_over(issues, u)) = listed(entry_over(non_system(issues), u))
        /\ my_total_score(issues, responses, projects, redemptions, user_ratings, u)
             = my_total_score(non_system(issues), responses, projects, redemptions,
                              user_ratings, u)

\* The project a new row of comments, issues or responses is on.
project_of_post(post_id) == Row(posts, post_id).project_id
project_of_issue(issue_id) == Row(issues, issue_id).project_id

\* User u has just written a comment, an issue or a response on project p.
wrote_on(u, p) ==
    \/ \E c \in comments' : /\ ~Exists(comments, c.id)
                             /\ c.user_id = u /\ project_of_post(c.post_id) = p
    \/ \E i \in issues' : /\ ~Exists(issues, i.id)
                           /\ i.source_platform = USER_PLATFORM
                           /\ i.user_id = u /\ i.project_id = p
    \/ \E a \in responses' : /\ ~Exists(responses, a.id)
                              /\ a.user_id = u /\ project_of_issue(a.issue_id) = p

\* C5: when user u has written a comment, an issue or a response on project
\* p, no redemption of u for p is unfulfilled any more: each one that was
\* pending is fulfilled with fulfilled_at set, and each of them that carried a
\* penalty has it reversed.
C5_FulfilOnContent ==
    [][\A u \in Users, p \in 1..MaxProjects :
          wrote_on(u, p) =>
             /\ \A r \in redemptions' :
                   (r.user_id = u /\ r.project_id = p) => r.fulfilled
             /\ \A r \in redemptions :
                   (r.user_id = u /\ r.project_id = p /\ ~r.fulfilled) =>
                      LET q == Row(redemptions', r.id)
                      IN  /\ q.fulfilled
                          /\ q.fulfilled_at # NULL
                          /\ r.karma_penalty_applied => q.karma_penalty_reversed]_vars

\* C5: one request has fulfilled two redemptions of the same user for the same
\* project, one of them penalised before and reversed now.
C5_Witness ==
    /\ resp.op \in {"create_comment", "create_issue", "respond_to_issue"}
    /\ \E r, q \in redemptions :
          /\ r.id # q.id /\ r.user_id = q.user_id /\ r.project_id = q.project_id
          /\ r.fulfilled /\ q.fulfilled
          /\ r.fulfilled_at = now /\ q.fulfilled_at = now
          /\ r.karma_penalty_applied /\ r.karma_penalty_reversed
          /\ ~q.karma_penalty_applied

\* C6: _fulfill_offer_obligation(u, p) changes nothing when u has no pending
\* redemption for p, a second call (at any later time) changes nothing the
\* first has not changed, and no call touches a redemption of another user or
\* of another project.
C6_FulfilIdempotentLocal ==
    \A u \in Users, p \in 1..MaxProjects :
        LET once == _fulfill_offer_obligation(redemptions, u, p, now)
        IN  /\ (\A r \in redemptions :
                   r.user_id = u /\ r.project_id = p => r.fulfilled)
                => once = redemptions
            /\ \A t \in now..MaxTime : _fulfill_offer_obligation(once, u, p, t) = once
            /\ \A r \in redemptions :
                   (r.user_id # u \/ r.project_id # p) => r \in once

\* C6: a redemption was fulfilled at an earlier time, and a pending redemption
\* of another user or for another project stands beside it.
C6_Witness ==
    \E r, q \in redemptions :
        /\ r.fulfilled /\ r.fulfilled_at # NULL /\ r.fulfilled_at < now
        /\ ~q.fulfilled
        /\ (q.user_id # r.user_id \/ q.project_id # r.project_id)

\* C7: a sweep sets karma_penalty_applied on exactly the redemptions that are
\* unfulfilled, unpenalised and past their deadline, returns their number and
\* changes nothing else; after it no unfulfilled redemption past its deadline
\* is unpenalised.
C7_SweepExact ==
    [][(resp'.op = "check_and_apply_karma_penalties" /\ now' = now) =>
          LET due(r) == ~r.fulfilled /\ ~r.karma_penalty_applied /\ r.deadline < now
          IN  /\ resp'.value = Cardinality({r \in redemptions : due(r)})
              /\ redemptions' =
                    {IF due(r) THEN [r EXCEPT !.karma_penalty_applied = TRUE] ELSE r :
                        r \in redemptions}
              /\ \A r \in redemptions' :
                    (~r.fulfilled /\ r.deadline < now) => r.karma_penalty_applied
              /\ UNCHANGED <<users, projects, issues, responses, posts, comments,
                             offers, user_ratings>>]_vars

\* C7: a sweep has penalised one redemption and left alone a pending one that
\* is not past its deadline.
C7_Witness ==
    /\ resp.op = "check_and_apply_karma_penalties"
    /\ resp.value >= 1
    /\ \E r, q \in redemptions :
          /\ r.karma_penalty_applied /\ ~r.fulfilled /\ r.deadline < now
          /\ ~q.karma_penalty_applied /\ ~q.fulfilled /\ q.deadline >= now

\* C8: the write of a sweep raises a user's offer_penalties by one for each of
\* the user's redemptions among the rows it read that no sweep has penalised
\* yet, and by nothing for the others; and when nothing has come between its
\* read and its write, a sweep right after it finds no row and changes nothing.
C8_SweepIdempotent ==
    [][\A s \in Sweepers :
          (sweeps[s].pc = "write" /\ sweeps'[s].pc = "idle") =>
             /\ \A u \in Users :
                   offer_penalties(redemptions', u) =
                      offer_penalties(redemptions, u)
                      + Cardinality({r \in redemptions :
                                       /\ r.id \in sweeps[s].rows
                                       /\ r.user_id = u
                                       /\ ~r.karma_penalty_applied
                                       /\ ~r.karma_penalty_reversed})
             /\ sweeps[s].rows = {r.id : r \in overdue(redemptions, now)} =>
                   /\ \A r \in redemptions' :
                         ~(~r.fulfilled /\ ~r.karma_penalty_applied /\ r.deadline < now)
                   /\ apply_penalties(redemptions', {}) = redemptions']_vars

\* C8: two sweeps have each returned 1 for the only redemption there is, and
\* its user has one penalty.
C8_Witness ==
    /\ \A s \in Sweepers : sweeps[s].pc = "idle" /\ sweeps[s].result = 1
    /\ Cardinality(redemptions) = 1
    /\ \E r \in redemptions :
          r.karma_penalty_applied /\ offer_penalties(redemptions, r.user_id) = 1

\* The request of this step is a claim of offer o by user u.
claims(u, o) ==
    /\ resp'.op = "claim_offer" /\ resp'.user = u /\ resp'.target = o
    /\ now' = now

\* C9: a claim by a user who holds a redemption of the offer does not fail: it
\* answers with the deadline of that redemption, claimed_at plus the claim
\* period, and leaves redemptions and offers as they are.
C9_SecondClaim ==
    [][\A u \in Users, o \in 1..MaxClaimOffers :
          (claims(u, o) /\ \E r \in redemptions : r.offer_id = o /\ r.user_id = u) =>
             /\ resp'.code = 200
             /\ \E r \in redemptions :
                   /\ r.offer_id = o /\ r.user_id = u
                   /\ resp'.value = r.claimed_at + CLAIM_PERIOD
             /\ UNCHANGED <<redemptions, offers>>]_vars

\* An offer is not valid when it is inactive, expired or exhausted; only a cap
\* of NULL is no cap.
not_valid(o) ==
    \/ ~o.is_active
    \/ o.valid_until # NULL /\ now > o.valid_until
    \/ o.max_redemptions # NULL /\ o.current_redemptions >= o.max_redemptions

\* C10: a claim of an offer that does not exist or is not valid, and a claim by
\* the owner of the offer's project, is answered with an error and leaves
\* redemptions and offers as they are.
C10_Rejections ==
    [][\A u \in Users, o \in 1..MaxClaimOffers + 1 :
          (claims(u, o) /\ (\/ ~Exists(offers, o)
                            \/ not_valid(Row(offers, o))
                            \/ owner_of(Row(offers, o).project_id) = u)) =>
             /\ resp'.code >= 400
             /\ UNCHANGED <<redemptions, offers>>]_vars

\* The redemption records of offer o in the table reds.
redemptions_of(reds, o) == {r \in reds : r.offer_id = o}

\* C11: a claim answered "claimed" adds exactly one redemption, unfulfilled, with
\* both penalty flags false and its deadline one claim period after the time of
\* the claim, raises current_redemptions of the offer by exactly 1 in the same
\* step and touches no other redemption or offer; and after every step
\* current_redemptions of every offer is the number of its redemption records.
C11_ClaimAtomic ==
    [][/\ \A u \in Users, o \in 1..MaxClaimOffers :
             (claims(u, o) /\ resp'.detail = "claimed") =>
                /\ \E r \in redemptions' :
                      /\ redemptions' = redemptions \cup {r}
                      /\ r \notin redemptions
                      /\ r.offer_id = o /\ r.user_id = u
                      /\ ~r.fulfilled
                      /\ ~r.karma_penalty_applied /\ ~r.karma_penalty_reversed
                      /\ r.claimed_at = now
                      /\ r.deadline = now + CLAIM_PERIOD
                /\ offers' = (offers \ {Row(offers, o)}) \cup
                      {[Row(offers, o) EXCEPT
                           !.current_redemptions = Row(offers, o).current_redemptions + 1]}
       /\ \A o \in offers' :
             o.current_redemptions = Cardinality(redemptions_of(redemptions', o.id))]_vars

\* C11: a claim has just succeeded on an offer that now counts two redemptions.
C11_Witness ==
    /\ resp.op = "claim_offer" /\ resp.detail = "claimed"
    /\ \E o \in offers :
          /\ o.id = resp.target
          /\ o.current_redemptions = 2
          /\ Cardinality(redemptions_of(redemptions, o.id)) = 2

\* C12: whatever the order in which the claims in flight are served, an offer
\* with a cap of n redemptions never has more than n redemption records, and its
\* current_redemptions is their number and at most n.
C12_CapHolds ==
    \A o \in offers :
        o.max_redemptions # NULL =>
            /\ Cardinality(redemptions_of(redemptions, o.id)) <= o.max_redemptions
            /\ o.current_redemptions <= o.max_redemptions
            /\ o.current_redemptions = Cardinality(redemptions_of(redemptions, o.id))

\* C13: no two redemption records have the same offer and the same user,
\* whatever the order in which claims are served, two claims of one user for one
\* offer included.
C13_OnePerOfferAndUser ==
    \A r, q \in redemptions :
        (r.offer_id = q.offer_id /\ r.user_id = q.user_id) => r.id = q.id

\* C13: a second claim of the same offer by the same user has been served, the
\* offer has room for more, and the user holds one redemption of it.
C13_Witness ==
    /\ resp.op = "claim_offer" /\ resp.detail = "already_claimed"
    /\ \E o \in offers :
          /\ o.id = resp.target
          /\ o.max_redemptions = NULL
          /\ Cardinality(existing_redemptions(redemptions, o.id, resp.user)) = 1
    /\ Cardinality(redemptions) < MaxRedemptions

\* The pending redemptions of user u for project p that carry a penalty.
penalised_pending(u, p) ==
    {r \in pending(redemptions, u, p) :
        r.karma_penalty_applied /\ ~r.karma_penalty_reversed}

\* The redemptions of user u a sweep at this moment penalises.
swept(u) == {r \in overdue(redemptions, now) : r.user_id = u}

\* The step is a sweep.
sweeping == resp'.op = "check_and_apply_karma_penalties" /\ now' = now

\* C14 as stated: a sweep lowers the karma of a user by one for each redemption
\* it penalises, and a comment, an issue or a response of user u on project p
\* reverses the penalties of u's pending redemptions for p and leaves karma at
\* the value it had before they were applied.
C14_KarmaAsBefore ==
    [][/\ sweeping =>
             \A u \in ObligationUsers :
                karma_of(u).karma' = karma_of(u).karma - Cardinality(swept(u))
       /\ \A u \in ObligationUsers, p \in 1..MaxProjects :
             (wrote_on(u, p) /\ penalised_pending(u, p) # {}) =>
                /\ \A r \in penalised_pending(u, p) :
                      Row(redemptions', r.id).karma_penalty_reversed
                /\ karma_of(u).karma' =
                      karma_of(u).karma + Cardinality(penalised_pending(u, p))]_vars

\* C14, amended: a sweep raises offer_penalties of a user by one for each
\* redemption it penalises and lowers karma by as much; a comment, an issue or a
\* response of user u on project p reverses the penalties of u's pending
\* redemptions for p, lowers offer_penalties by their number, and leaves karma
\* at the value it had before they were applied when it is a comment or a
\* response, and one above it when it is an issue, which counts as given.
C14_FulfilRestores ==
    [][/\ sweeping =>
             \A u \in ObligationUsers :
                /\ karma_of(u).offer_penalties' =
                      karma_of(u).offer_penalties + Cardinality(swept(u))
                /\ karma_of(u).karma' = karma_of(u).karma - Cardinality(swept(u))
       /\ \A u \in ObligationUsers, p \in 1..MaxProjects :
             (wrote_on(u, p) /\ penalised_pending(u, p) # {}) =>
                /\ \A r \in penalised_pending(u, p) :
                      Row(redemptions', r.id).karma_penalty_reversed
                /\ karma_of(u).offer_penalties' =
                      karma_of(u).offer_penalties - Cardinality(penalised_pending(u, p))
                /\ karma_of(u).karma' =
                      karma_of(u).karma + Cardinality(penalised_pending(u, p))
                      + (IF resp'.op = "create_issue" THEN 1 ELSE 0)]_vars

\* C14: an issue has fulfilled a redemption that a sweep had penalised; the
\* penalty is reversed and the user's karma is 1.
C14_Witness ==
    /\ resp.op = "create_issue"
    /\ \E r \in redemptions :
          /\ r.fulfilled /\ r.fulfilled_at = now
          /\ r.karma_penalty_applied /\ r.karma_penalty_reversed
          /\ karma_of(r.user_id).offer_penalties = 0
          /\ karma_of(r.user_id).karma = 1

\* The author of the row with id k of table T, NULL when there is no such row.
author_of(T, k) == IF Exists(T, k) THEN Row(T, k).user_id ELSE NULL

\* The step is answered with an error and leaves every table as it is.
rejected_unchanged == resp'.code >= 400 /\ UNCHANGED store

\* C15: a vote of a user on a post, comment, response, issue, message or reply
\* of the user's own, a rating of the user's own project and a rating of
\* oneself are answered with an error and change no table, and so is a vote
\* whose type is neither upvote nor downvote (u and k being the user and the
\* path id of the request of the step).
C15_SelfAndInvalidRejected ==
    [][LET u == resp'.user
           k == resp'.target
           own(T, t) == author_of(T, k) = u \/ t = "funny"
       IN  /\ \A t \in VoteTypes :
                 /\ (resp'.op = "vote_post" /\ vote_post(u, k, t) /\ own(posts, t))
                       => rejected_unchanged
                 /\ (resp'.op = "vote_comment" /\ vote_comment(u, k, t)
                     /\ own(comments, t))
                       => rejected_unchanged
                 /\ (resp'.op = "vote_response" /\ vote_response(u, k, t)
                     /\ own(responses, t))
                       => rejected_unchanged
                 /\ (resp'.op = "vote_issue" /\ vote_issue(u, k, t) /\ own(issues, t))
                       => rejected_unchanged
                 /\ (resp'.op = "vote_message" /\ vote_message(u, k, t)
                     /\ own(messages, t))
                       => rejected_unchanged
                 /\ (resp'.op = "vote_message_reply" /\ vote_message_reply(u, k, t)
                     /\ own(message_replies, t))
                       => rejected_unchanged
           /\ \A n \in Stars :
                 /\ (resp'.op = "rate_project" /\ rate_project(u, k, n)
                     /\ owner_of(k) = u)
                       => rejected_unchanged
                 /\ (resp'.op = "rate_user" /\ rate_user(u, u, n) /\ k = u)
                       => rejected_unchanged]_vars

\* C15: the author of a post that another user has voted on has voted on it and
\* was turned away.
C15_Witness ==
    /\ resp.op = "vote_post" /\ resp.code = 400
    /\ resp.detail = "Cannot vote for own"
    /\ author_of(posts, resp.target) = resp.user
    /\ \E v \in votes["post"] : v.entity_id = resp.target /\ v.user_id # resp.user

\* The vote types a handler accepts.
Accepted == {"upvote", "downvote"}

\* Two votes of type t in a row by user u on row k of table T leave T and its
\* vote table as they were, and the second is answered with voted = none.
toggles_back(op, T, table_votes, u, k, t) ==
    LET once == vote_outcome(op, T, table_votes, u, k, t)
        twice == vote_outcome(op, once.rows, once.votes, u, k, t)
    IN  /\ once.resp.code = 200 /\ once.resp.detail = t
        /\ votes_by(once.votes, k, u) # {}
        /\ twice.resp.code = 200 /\ twice.resp.detail = "none"
        /\ twice.rows = T
        /\ twice.votes = table_votes

\* The same for a response or an issue, whose handlers leave the tables alone.
helpful_toggles_back(op, T, u, k, t) ==
    LET once == helpful_vote_response(op, T, u, k, t)
        twice == helpful_vote_response(op, T, u, k, t)
    IN  /\ once.code = 200 /\ once.detail = t
        /\ twice.code = 200 /\ twice.detail = "none"

\* User u is not the author of row r and has no vote on it in table_votes.
fresh_voter(r, table_votes, u) == r.user_id # u /\ votes_by(table_votes, r.id, u) = {}

\* C16: on every post, comment, message, reply, response and issue, for every
\* user who is not its author and has no vote on it, and for upvote and
\* downvote alike, casting the vote twice in a row ends with no vote record of
\* the user, the answer voted = none, and both counters at the values they had
\* before the first vote.
C16_ToggleLaw ==
    \A u \in Users, t \in Accepted :
        /\ \A r \in posts : fresh_voter(r, votes["post"], u) =>
              toggles_back("vote_post", posts, votes["post"], u, r.id, t)
        /\ \A r \in comments : fresh_voter(r, votes["comment"], u) =>
              toggles_back("vote_comment", comments, votes["comment"], u, r.id, t)
        /\ \A r \in messages : fresh_voter(r, votes["message"], u) =>
              toggles_back("vote_message", messages, votes["message"], u, r.id, t)
        /\ \A r \in message_replies : fresh_voter(r, votes["reply"], u) =>
              toggles_back("vote_message_reply", message_replies, votes["reply"], u,
                           r.id, t)
        /\ \A r \in responses : fresh_voter(r, votes["response"], u) =>
              helpful_toggles_back("vote_response", responses, u, r.id, t)
        /\ \A r \in issues : fresh_voter(r, votes["issue"], u) =>
              helpful_toggles_back("vote_issue", issues, u, r.id, t)

\* The kinds whose handlers write votes, their tables and their handlers.
Counted == {"post", "comment", "message", "reply"}
table_of(kind) ==
    CASE kind = "post" -> posts
      [] kind = "comment" -> comments
      [] kind = "message" -> messages
      [] kind = "reply" -> message_replies
      [] kind = "response" -> responses
      [] kind = "issue" -> issues
op_of(kind) ==
    CASE kind = "post" -> "vote_post"
      [] kind = "comment" -> "vote_comment"
      [] kind = "message" -> "vote_message"
      [] kind = "reply" -> "vote_message_reply"
      [] kind = "response" -> "vote_response"
      [] kind = "issue" -> "vote_issue"

\* upvotes + downvotes of a row.
both(row) == row.upvote_count + row.downvote_count

\* C17: when a user who holds a vote on a post, comment, message or reply
\* casts the other vote type, the old counter falls by exactly 1, the new one
\* rises by exactly 1, and the user's vote record is the same row with its
\* vote_type changed, no row being added or removed; and with every accepted
\* vote the user holds 0 or 1 records on the row afterwards, upvotes + downvotes
\* having moved by just the change in that number.
C17_SwitchInPlace ==
    [][\A kind \in Counted :
          (resp'.op = op_of(kind) /\ resp'.code = 200) =>
             LET u == resp'.user
                 k == resp'.target
                 row == Row(table_of(kind), k)
                 after == Row(table_of(kind)', k)
                 mine == votes_by(votes[kind], k, u)
                 mine_after == votes_by(votes'[kind], k, u)
             IN  /\ Cardinality(mine_after) \in {0, 1}
                 /\ both(after) - both(row) = Cardinality(mine_after) - Cardinality(mine)
                 /\ (mine # {} /\ resp'.detail \in Accepted) =>
                       LET v == First(mine)
                       IN  /\ v.vote_type # resp'.detail
                           /\ after[counter(v.vote_type)] = row[counter(v.vote_type)] - 1
                           /\ after[counter(resp'.detail)] = row[counter(resp'.detail)] + 1
                           /\ votes'[kind] =
                                 (votes[kind] \ {v})
                                 \cup {[v EXCEPT !.vote_type = resp'.detail]}]_vars

\* C17: the user who cast the first vote on a message has just switched it to
\* downvote, beside the upvote of another user.
C17_Witness ==
    /\ resp.op = "vote_message" /\ resp.code = 200 /\ resp.detail = "downvote"
    /\ \E v, w \in votes["message"] :
          /\ v.id = 1 /\ v.user_id = resp.user /\ v.entity_id = resp.target
          /\ v.vote_type = "downvote"
          /\ w.id = 2 /\ w.entity_id = resp.target /\ w.vote_type = "upvote"
    /\ \E m \in messages :
          m.id = resp.target /\ m.upvote_count = 1 /\ m.downvote_count = 1

\* The vote records of type t on row k in table_votes.
records(table_votes, k, t) == {v \in table_votes : v.entity_id = k /\ v.vote_type = t}

\* C18: after any sequence of vote requests, one at a time, by any users, on
\* every post, comment, message and reply the upvote counter is the number of
\* its upvote records and the downvote counter the number of its downvote
\* records, neither is negative, and no user holds two vote records on it; on
\* every response and issue helpful_count is the number of its vote records.
C18_CountersMatchRecords ==
    /\ \A kind \in Counted : \A r \in table_of(kind) :
          /\ r.upvote_count = Cardinality(records(votes[kind], r.id, "upvote"))
          /\ r.downvote_count = Cardinality(records(votes[kind], r.id, "downvote"))
          /\ r.upvote_count >= 0 /\ r.downvote_count >= 0
          /\ \A u \in Users : Cardinality(votes_by(votes[kind], r.id, u)) <= 1
    /\ \A kind \in Kinds \ Counted : \A r \in table_of(kind) :
          /\ r.helpful_count = Cardinality({v \in votes[kind] : v.entity_id = r.id})
          /\ \A u \in Users : Cardinality(votes_by(votes[kind], r.id, u)) <= 1

\* C18: a comment carries an upvote and a downvote of two users, one of them
\* cast again after it had been taken back.
C18_Witness ==
    \E c \in comments :
        /\ c.upvote_count = 1 /\ c.downvote_count = 1
        /\ \E v, w \in votes["comment"] :
              /\ v.id = 2 /\ w.id = 3
              /\ v.entity_id = c.id /\ w.entity_id = c.id
              /\ v.user_id # w.user_id
              /\ v.vote_type # w.vote_type

\* C19: when two upvote requests of one user on one response have been
\* processed, the second having loaded the response while the first was waiting
\* for its body, the user holds exactly one vote record on the response and
\* helpful_count is one above the value the first request loaded.
C19_OneVoteOfTwo ==
    \A q1, q2 \in Requests :
        (/\ q1 # q2
         /\ flights[q1].pc = "done" /\ flights[q2].pc = "done"
         /\ q1 \in flights[q2].beside
         /\ flights[q1].user = flights[q2].user
         /\ flights[q1].target = flights[q2].target
         /\ flights[q1].vote_type = "upvote" /\ flights[q2].vote_type = "upvote") =>
            /\ Cardinality(votes_by(votes["response"], flights[q1].target,
                                    flights[q1].user)) = 1
            /\ Row(responses, flights[q1].target).helpful_count
                  = flights[q1].upvotes + 1

\* The answer of get_leaderboard in the current store.
leaderboard_now ==
    get_leaderboard(users, issues, responses, projects, redemptions, user_ratings)

\* The answer of get_my_leaderboard_stats for user u in the current store.
my_stats(u) ==
    get_my_leaderboard_stats(users, issues, responses, projects, redemptions,
                             user_ratings, u)

\* C20: for every entry of the leaderboard, get_my_leaderboard_stats of its user
\* has the same total_score, the same test_karma and the same rank; the total
\* is solutions + response_helpful + issue_helpful + github_positive
\* - github_negative + five_star_ratings + given + received - offer_penalties,
\* and test_karma is the karma of calculate_test_karma.
C20_MyStatsMatchLeaderboard ==
    \A e \in leaderboard_now :
        LET m == my_stats(e.user_id)
            d == e.entry
            k == karma_of(e.user_id)
        IN  /\ m.total_score = e.total_score
            /\ m.test_karma = e.test_karma
            /\ m.rank = e.rank
            /\ e.total_score =
                  d.solutions + d.response_helpful + d.issue_helpful
                  + d.github_positive - d.github_negative + d.five_star_ratings
                  + k.given + k.received - k.offer_penalties
            /\ m.test_karma = k.karma

\* C20: three users are on the leaderboard, two of them with the same
\* total_score, and the scores count a solution, a five-star rating and a
\* penalty.
C20_Witness ==
    /\ Cardinality(leaderboard_now) = 3
    /\ \E e, o \in leaderboard_now :
          e.user_id # o.user_id /\ e.total_score = o.total_score
    /\ \E e \in leaderboard_now : e.entry.solutions = 1
    /\ \E e \in leaderboard_now : e.entry.five_star_ratings = 1
    /\ \E e \in leaderboard_now : e.entry.offer_penalties = 1

\* The users whose entry get_leaderboard appends.
qualified ==
    {u \in users : listed(user_scores(issues, responses, projects, redemptions,
                                      user_ratings, u))}

\* C21: get_leaderboard returns at most 50 entries, one per user, ordered by
\* non-increasing total_score, with the ranks 1..n; every entry has a
\* total_score above 0, an issue, a response, or given or received above 0; and
\* when at most 50 users qualify, all of them are returned.
C21_TopFiftyRanked ==
    LET lb == leaderboard_now
        n == Cardinality(lb)
    IN  /\ n <= 50
        /\ {e.rank : e \in lb} = 1..n
        /\ Cardinality({e.user_id : e \in lb}) = n
        /\ \A e, o \in lb : e.rank < o.rank => e.total_score >= o.total_score
        /\ \A e \in lb :
              /\ e.user_id \in users
              /\ \/ e.total_score > 0
                 \/ e.entry.total_issues > 0
                 \/ e.entry.total_responses > 0
                 \/ e.entry.issues_given > 0
                 \/ e.entry.issues_received > 0
        /\ Cardinality(qualified) <= 50 => {e.user_id : e \in lb} = qualified

\* C21: 51 users qualify, 50 of them are returned, a rated user stands above
\* users of a lower id, and a user without activity is left out.
C21_Witness ==
    /\ Cardinality(qualified) = 51
    /\ Cardinality(leaderboard_now) = 50
    /\ \E e, o \in leaderboard_now :
          e.rank < o.rank /\ e.user_id > o.user_id /\ e.total_score > o.total_score
    /\ users \ qualified # {}

\* The ratings of project p by user u, and of user t by user u.
project_ratings_by(T, p, u) == {g \in T : g.project_id = p /\ g.user_id = u}
user_ratings_by(T, t, u) == {g \in T : g.rated_user_id = t /\ g.rater_user_id = u}

\* No project and no user has two ratings by one rater.
one_rating_per_pair ==
    /\ \A g, h \in project_ratings :
          (g.project_id = h.project_id /\ g.user_id = h.user_id) => g = h
    /\ \A g, h \in user_ratings :
          (g.rated_user_id = h.rated_user_id /\ g.rater_user_id = h.rater_user_id)
             => g = h

\* Table T becomes T2 by the stars of row g alone becoming n.
replaced_in_place(T, T2, g, n) == T2 = (T \ {g}) \cup {[g EXCEPT !.stars = n]}

\* C22: there is at most one rating per target and rater; a rating by a rater
\* who has rated the target before replaces the stars of that row and adds none,
\* so the number of ratings of the target stays, and is answered with the new
\* value as your_rating; a rating with stars outside 1..5 is answered with an
\* error and changes no rating (u and k being the user and the path id of the
\* request of the step).
C22_RatingUpsert ==
    /\ []one_rating_per_pair
    /\ [][LET u == resp'.user
              k == resp'.target
          IN  \A n \in RatingStars :
                /\ (resp'.op = "rate_project" /\ rate_project(u, k, n))
                      => /\ ~(1 <= n /\ n <= 5) => rejected_unchanged
                         /\ (resp'.code = 200 /\ project_ratings_by(project_ratings, k, u) # {})
                               => /\ \E g \in project_ratings_by(project_ratings, k, u) :
                                        replaced_in_place(project_ratings,
                                                          project_ratings', g, n)
                                  /\ Cardinality({g \in project_ratings' : g.project_id = k})
                                     = Cardinality({g \in project_ratings : g.project_id = k})
                                  /\ resp'.value = n
                /\ (resp'.op = "rate_user" /\ rate_user(u, k, n))
                      => /\ ~(1 <= n /\ n <= 5) => rejected_unchanged
                         /\ (resp'.code = 200 /\ user_ratings_by(user_ratings, k, u) # {})
                               => /\ \E g \in user_ratings_by(user_ratings, k, u) :
                                        replaced_in_place(user_ratings, user_ratings', g, n)
                                  /\ Cardinality({g \in user_ratings' : g.rated_user_id = k})
                                     = Cardinality({g \in user_ratings : g.rated_user_id = k})
                                  /\ resp'.value = n]_vars

\* C22: a user has rated a project a second time, with other stars than the
\* row had at first, and the project has another rating beside it.
C22_Witness ==
    /\ resp.op = "rate_project" /\ resp.code = 200 /\ resp.value = 1
    /\ \E g, h \in project_ratings :
          /\ g.project_id = resp.target /\ g.user_id = resp.user /\ g.stars = 1
          /\ h.project_id = resp.target /\ h.user_id # resp.user /\ h.id > g.id

\* Redemption k is past its deadline and not fulfilled.
past_deadline(k) ==
    \E r \in redemptions : r.id = k /\ ~r.fulfilled /\ r.deadline < now

\* C23: a redemption past its deadline that is not fulfilled gets its penalty
\* through the requests the application serves: from then on a load of the
\* leaderboard comes whose offer_penalties of the claimer count it, unless the
\* redemption is fulfilled first.
C23_PenalizedByRequests ==
    \A k \in 1..MaxRedemptions :
        past_deadline(k) ~>
            \E r \in redemptions :
                /\ r.id = k
                /\ \/ r.fulfilled
                   \/ /\ r.karma_penalty_applied
                      /\ offer_penalties(redemptions, r.user_id) > 0
                      /\ resp.op = "get_leaderboard"

\* C24: an offer is valid exactly when it is active, not expired (valid_until
\* is null or the time is not after it) and not exhausted (max_redemptions is
\* null or current_redemptions is below it), a max_redemptions of 0 included.
C24_ValidIffOpen ==
    \A o \in offers :
        is_valid(o, now) <=>
            /\ o.is_active
            /\ (o.valid_until = NULL \/ now <= o.valid_until)
            /\ (o.max_redemptions = NULL \/ o.current_redemptions < o.max_redemptions)

\* C25: a fulfilled redemption is left as it is by every step: none of its
\* fields changes any more.
C25_FulfilledTerminal ==
    [][\A r \in redemptions : r.fulfilled => r \in redemptions']_vars

\* The step leaves a vote record of user u on row k in the vote table of kind and
\* raises helpful_count of the row, T before and T2 after the step, by 1.
first_upvote_counted(T, T2, kind, u, k) ==
    /\ resp'.code = 200
    /\ Row(T2, k).helpful_count = Row(T, k).helpful_count + 1
    /\ votes_by(votes'[kind], k, u) # {}

\* C26: responses and issues are voted on as posts are: a first upvote of a
\* user on a response or an issue of another user succeeds, leaves a vote record
\* and raises helpful_count by 1 (u and k being the user and the path id of the
\* request of the step).
C26_HelpfulVoteAsPostVote ==
    [][LET u == resp'.user
           k == resp'.target
       IN  /\ (/\ resp'.op = "vote_response" /\ vote_response(u, k, "upvote")
                /\ valid_vote(responses, u, k, "upvote")
                /\ votes_by(votes["response"], k, u) = {})
                  => first_upvote_counted(responses, responses', "response", u, k)
           /\ (/\ resp'.op = "vote_issue" /\ vote_issue(u, k, "upvote")
                /\ valid_vote(issues, u, k, "upvote")
                /\ votes_by(votes["issue"], k, u) = {})
                  => first_upvote_counted(issues, issues', "issue", u, k)]_vars

\* The responses to issue i that are marked as its solution.
solutions_of(resps, i) == {r \in resps : r.issue_id = i /\ r.is_solution = 1}

C28_NoPenaltyOnFulfilled ==
    \A r \in redemptions :
        r.fulfilled => (r.karma_penalty_applied => r.karma_penalty_reversed)

\* C29: on every redemption karma_penalty_reversed comes with
\* karma_penalty_applied and fulfilled, and fulfilled_at is set exactly when
\* fulfilled is; no step takes back fulfilled, karma_penalty_applied or
\* karma_penalty_reversed; and karma_penalty_applied is set only on a redemption
\* whose deadline has passed at the step that sets it, never by the claim.
C29_FlagsWellFormed ==
    /\ [](\A r \in redemptions :
             /\ r.karma_penalty_reversed => (r.karma_penalty_applied /\ r.fulfilled)
             /\ r.fulfilled_at # NULL <=> r.fulfilled)
    /\ [][\A q \in redemptions' :
             IF \E r \in redemptions : r.id = q.id
             THEN LET r == Row(redemptions, q.id)
                  IN  /\ r.fulfilled => q.fulfilled
                      /\ r.karma_penalty_applied => q.karma_penalty_applied
                      /\ r.karma_penalty_reversed => q.karma_penalty_reversed
                      /\ (~r.karma_penalty_applied /\ q.karma_penalty_applied)
                            => r.deadline < now
             ELSE ~q.fulfilled /\ ~q.karma_penalty_applied
                  /\ ~q.karma_penalty_reversed]_vars

\* C29: of two redemptions past their deadline one is penalized and not
\* fulfilled, the other was penalized and then fulfilled, its penalty reversed.
C29_Witness ==
    \E r, q \in redemptions :
        /\ r.karma_penalty_applied /\ ~r.fulfilled /\ ~r.karma_penalty_reversed
        /\ q.karma_penalty_applied /\ q.fulfilled /\ q.karma_penalty_reversed
        /\ q.fulfilled_at > q.deadline

\* helpful_count of every response and of every issue is the number of vote
\* records on it.
helpful_counts_match ==
    /\ \A r \in responses :
          r.helpful_count = Cardinality({v \in votes["response"] : v.entity_id = r.id})
    /\ \A i \in issues :
          i.helpful_count = Cardinality({v \in votes["issue"] : v.entity_id = i.id})

====
